---- MODULE Spec2Model ----
(***************************************************************************)
(* Credential and session lifecycle of Paleta's mobile API (/api/v1):      *)
(* login, refresh-token rotation and logout over the refresh_tokens table, *)
(* as implemented in utils/jwt_service.py and routes/api_v1.py.            *)
(*                                                                         *)
(* Requests are served by concurrent workers.  Each worker owns an ORM     *)
(* session: reads see the committed table, attribute writes and added      *)
(* objects stay in the session until db.session.commit() flushes them in   *)
(* one transaction.  A request is therefore modelled by its read phase     *)
(* (the handler up to the commit call) and its commit phase.               *)
(***************************************************************************)
EXTENDS Integers, Sequences, FiniteSets, TLC

----------------------------------------------------------------------------
(* Bounds of the model *)

NumProcs == 2
MaxTime == 2
MaxTokens == 2
NumSecrets == 3
JWT_REFRESH_TTL_DAYS == 1
JWT_ACCESS_TTL_MINUTES == 1
PASSWORD_RESET_CODE_TTL_MINUTES == 1
PASSWORD_RESET_MAX_ATTEMPTS == 5
MaxMinutes == 5
TickStep == 3
MaxCodes == 2
MaxExcess == 1

Procs == 1..NumProcs

\* Raw refresh secrets (values of secrets.token_urlsafe(48)); a client may
\* present any of them, issued or not.
Secrets == 1..NumSecrets

\* A refresh_token field that is missing, empty or blank after .strip().
Blank == 0

\* SQL NULL of a nullable DateTime column / Python None.
NULL == -1

Max(a, b) == IF a >= b THEN a ELSE b

----------------------------------------------------------------------------
(* Users (models.user.User rows as created by the tests' create_user) *)

generate_password_hash(password) == <<"scrypt", password>>

check_password_hash(pwhash, password) == pwhash = <<"scrypt", password>>

UserTable ==
    <<[id |-> 1, username |-> "diana",
       password_hash |-> generate_password_hash("Password123!")],
      [id |-> 2, username |-> "erin",
       password_hash |-> generate_password_hash("Password123!")]>>

\* User.query.filter_by(username=username).first(); 0 stands for None.
UserByUsername(username) ==
    IF \E i \in 1..Len(UserTable) : UserTable[i].username = username
    THEN CHOOSE i \in 1..Len(UserTable) :
            /\ UserTable[i].username = username
            /\ \A j \in 1..(i - 1) : UserTable[j].username # username
    ELSE 0

\* Request payloads the clients send.
UsernameInputs == {"", "diana", "erin", "mallory"}
CredentialInputs ==
    {<<"", "">>, <<"diana", "Password123!">>, <<"diana", "WrongPassword123!">>,
     <<"erin", "Password123!">>, <<"mallory", "Password123!">>}
DeviceInputs ==
    {[device_id |-> "", device_name |-> ""],
     [device_id |-> "pixel-1", device_name |-> "Pixel 8"]}

\* A payload without device fields: the handlers fall back to their defaults.
NoDeviceInputs == {[device_id |-> "", device_name |-> ""]}

\* (payload.get("device_id") or "android").strip() or "android"
NormDeviceId(d) == IF d = "" THEN "android" ELSE d

\* (payload.get("device_name") or "Android Device").strip() or "Android Device"
NormDeviceName(n) == IF n = "" THEN "Android Device" ELSE n

----------------------------------------------------------------------------
(* utils/api_response.py and the error type of utils/jwt_service.py *)

NoData == [kind |-> "none"]

api_success(data) ==
    [success |-> TRUE, status |-> 200, code |-> "", message |-> "", data |-> data]

api_error(code, message, status) ==
    [success |-> FALSE, status |-> status, code |-> code, message |-> message,
     data |-> NoData]

AuthError(code, message, status) ==
    [code |-> code, message |-> message, status |-> status]

\* flask_babel.gettext: the catalog entry of the msgid, the msgid itself in
\* the source locale.
gettext(message) == message

_auth_error_response(exc) == api_error(exc.code, gettext(exc.message), exc.status)

\* An exception that is not an AuthError leaves the view: Flask answers 500
\* and the session is removed (rolled back) at teardown.
InternalServerError == api_error("", "", 500)

----------------------------------------------------------------------------
(* State *)

VARIABLES
    now,        \* the clock read by _utcnow(), in days
    tokens,     \* committed rows of refresh_tokens, row i has id i
    pc,         \* pc[p]: where worker p is in its request
    sess,       \* sess[p]: the request and ORM session of worker p
    last,       \* the request completed last and its response
    accepted,   \* accepted[s]: committed successful rotations of secret s
    loggedOut,  \* secrets whose logout committed with revoked = true
    issued,     \* issued[s]: the token pair that returned secret s, if any
    config,     \* current_app.config, read-only after startup
    utcnow,     \* the clock read by datetime.utcnow() in routes/auth.py, in minutes
    codes,      \* committed rows of password_reset_token, row i has id i
    password_hash,  \* password_hash[u]: the column of the user with id u
    audit,      \* audit[i]: submissions compared with, and found wrong for, code i
    outbox,     \* outbox[i]: whether send_password_reset_code delivered code i
    peak,       \* peak[i]: the largest attempts ever committed for code i
    palettes,   \* committed rows of palette, row i has id i
    paging,     \* the paging session of a client of GET /palettes
    cursor      \* a cursor string on its way through encode_cursor / decode_cursor

vars == <<now, tokens, pc, sess, last, accepted, loggedOut, issued, config,
          utcnow, codes, password_hash, audit, outbox, peak, palettes, paging,
          cursor>>

\* The state of the password-reset flow.
resetVars == <<utcnow, codes, password_hash, audit, outbox, peak>>

\* The state of the palette routes and of the cursor codec.
paletteVars == <<palettes, paging, cursor>>

NoPaging == [stage |-> "none"]
NoCursor == [stage |-> "none"]

\* The state of the token lifecycle.
tokenVars == <<now, tokens, accepted, loggedOut, issued>>

NoSession == [op |-> "none"]
NoIssue == [user_id |-> 0, issued_at |-> NULL]

\* The configuration of the test application.
DefaultConfig ==
    [JWT_SECRET_KEY |-> "test-jwt-secret-key-with-safe-length-32",
     JWT_ISSUER |-> "paleta-test",
     JWT_AUDIENCE |-> "paleta-mobile-test",
     JWT_ACCESS_TTL_MINUTES |-> JWT_ACCESS_TTL_MINUTES,
     JWT_REFRESH_TTL_DAYS |-> JWT_REFRESH_TTL_DAYS,
     PASSWORD_RESET_CODE_TTL_MINUTES |-> PASSWORD_RESET_CODE_TTL_MINUTES,
     PASSWORD_RESET_MAX_ATTEMPTS |-> PASSWORD_RESET_MAX_ATTEMPTS,
     DEBUG |-> FALSE]

----------------------------------------------------------------------------
(* utils/jwt_service.py *)

_hash_token(raw_token) == <<"sha256", raw_token>>

\* RefreshToken.query.filter_by(token_hash=token_hash).first(); 0 for None.
FirstByHash(store, token_hash) ==
    IF \E i \in 1..Len(store) : store[i].token_hash = token_hash
    THEN CHOOSE i \in 1..Len(store) :
            /\ store[i].token_hash = token_hash
            /\ \A j \in 1..(i - 1) : store[j].token_hash # token_hash
    ELSE 0

NoError == AuthError("", "", 0)

\* The clock counts days; datetime.timestamp() counts seconds.
Timestamp(t) == t * 86400

\* str(n) of an integer and int(s) of a string; int raises ValueError
\* (here NULL) on a string that is not a decimal numeral.
str(n) == ToString(n)

int(text) ==
    IF \E n \in 0..9 : ToString(n) = text
    THEN CHOOSE n \in 0..9 : ToString(n) = text
    ELSE NULL

\* jwt.encode(payload, key, algorithm="HS256"): the payload and the key that
\* produced the signature over it.
jwt_encode(payload, key) == [payload |-> payload, key |-> key, alg |-> "HS256"]

\* Variant: the configured time to live is used as it is.
_issue_access_token_raw_ttl(user_id, t) ==
    LET ttl_minutes == config.JWT_ACCESS_TTL_MINUTES
    IN  [token |-> jwt_encode([sub |-> str(user_id),
                               iss |-> config.JWT_ISSUER,
                               aud |-> config.JWT_AUDIENCE,
                               iat |-> Timestamp(t),
                               exp |-> Timestamp(t) + ttl_minutes * 60,
                               type |-> "access"],
                              config.JWT_SECRET_KEY),
         expires_in |-> ttl_minutes * 60]

\* The jti claim (a random nonce) is read by no code and is left out.
_issue_access_token(user_id, t) ==
    LET ttl_minutes == Max(1, config.JWT_ACCESS_TTL_MINUTES)
    IN  [token |-> jwt_encode([sub |-> str(user_id),
                               iss |-> config.JWT_ISSUER,
                               aud |-> config.JWT_AUDIENCE,
                               iat |-> Timestamp(t),
                               exp |-> Timestamp(t) + ttl_minutes * 60,
                               type |-> "access"],
                              config.JWT_SECRET_KEY),
         expires_in |-> ttl_minutes * 60]

NoDeviceName == "None"

\* Variant: the time to live is not added to the expiry.
_issue_refresh_token_no_ttl(user_id, device_id, device_name, t, raw_token) ==
    [id |-> 0,
     user_id |-> user_id,
     token_hash |-> _hash_token(raw_token),
     device_id |-> device_id,
     device_name |-> IF device_name = "" THEN NoDeviceName ELSE device_name,
     created_at |-> NULL,
     expires_at |-> t,
     last_used_at |-> t,
     revoked_at |-> NULL]

\* The RefreshToken object handed to db.session.add(); id and created_at are
\* filled in by the INSERT.
_issue_refresh_token(user_id, device_id, device_name, t, raw_token) ==
    LET ttl_days == Max(1, config.JWT_REFRESH_TTL_DAYS)
    IN  [id |-> 0,
         user_id |-> user_id,
         token_hash |-> _hash_token(raw_token),
         device_id |-> device_id,
         device_name |-> IF device_name = "" THEN NoDeviceName ELSE device_name,
         created_at |-> NULL,
         expires_at |-> t + ttl_days,
         last_used_at |-> t,
         revoked_at |-> NULL]

issue_token_pair(user_id, device_id, device_name, t, raw_token) ==
    LET access == _issue_access_token(user_id, t)
    IN  [tokens |-> [access_token |-> access.token,
                     refresh_token |-> raw_token,
                     expires_in |-> access.expires_in,
                     token_type |-> "Bearer"],
         added |-> _issue_refresh_token(user_id, device_id, device_name, t, raw_token)]

\* Variant: an expired record is reported like an unknown one.
get_active_expired_as_invalid(store, raw_token, t) ==
    LET token == FirstByHash(store, _hash_token(raw_token))
    IN  IF token = 0
        THEN [ok |-> FALSE, token |-> 0,
              error |-> AuthError("AUTH_INVALID_REFRESH", "invalid refresh token", 401)]
        ELSE IF store[token].revoked_at # NULL
        THEN [ok |-> FALSE, token |-> token,
              error |-> AuthError("AUTH_INVALID_REFRESH", "refresh token revoked", 401)]
        ELSE IF store[token].expires_at <= t
        THEN [ok |-> FALSE, token |-> token,
              error |-> AuthError("AUTH_INVALID_REFRESH", "invalid refresh token", 401)]
        ELSE [ok |-> TRUE, token |-> token, error |-> NoError]

\* Variant: the expiry is tested before the revocation.
get_active_expiry_first(store, raw_token, t) ==
    LET token == FirstByHash(store, _hash_token(raw_token))
    IN  IF token = 0
        THEN [ok |-> FALSE, token |-> 0,
              error |-> AuthError("AUTH_INVALID_REFRESH", "invalid refresh token", 401)]
        ELSE IF store[token].expires_at <= t
        THEN [ok |-> FALSE, token |-> token,
              error |-> AuthError("AUTH_REFRESH_EXPIRED", "refresh token expired", 401)]
        ELSE IF store[token].revoked_at # NULL
        THEN [ok |-> FALSE, token |-> token,
              error |-> AuthError("AUTH_INVALID_REFRESH", "refresh token revoked", 401)]
        ELSE [ok |-> TRUE, token |-> token, error |-> NoError]

get_active_refresh_token(store, raw_token, t) ==
    LET token == FirstByHash(store, _hash_token(raw_token))
    IN  IF token = 0
        THEN [ok |-> FALSE, token |-> 0,
              error |-> AuthError("AUTH_INVALID_REFRESH", "invalid refresh token", 401)]
        ELSE IF store[token].revoked_at # NULL
        THEN [ok |-> FALSE, token |-> token,
              error |-> AuthError("AUTH_INVALID_REFRESH", "refresh token revoked", 401)]
        ELSE IF store[token].expires_at <= t
        THEN [ok |-> FALSE, token |-> token,
              error |-> AuthError("AUTH_REFRESH_EXPIRED", "refresh token expired", 401)]
        ELSE [ok |-> TRUE, token |-> token, error |-> NoError]

\* The attribute writes of a session: which row, and the values assigned.
Dirty(token, t) == [token |-> token, revoked_at |-> t, last_used_at |-> t]

\* Variant: the new record inherits the device of the rotated record.
rotate_keeps_device(store, raw_refresh_token, device_id, device_name, t, raw_token) ==
    LET active == get_active_refresh_token(store, raw_refresh_token, t)
    IN  IF ~active.ok
        THEN [ok |-> FALSE, error |-> active.error, dirty |-> <<>>, new |-> <<>>,
              user_id |-> 0, tokens |-> NoData]
        ELSE LET user_id == store[active.token].user_id
                 pair == issue_token_pair(user_id, store[active.token].device_id,
                                          store[active.token].device_name, t, raw_token)
             IN  [ok |-> TRUE, error |-> NoError,
                  dirty |-> <<Dirty(active.token, t)>>,
                  new |-> <<pair.added>>,
                  user_id |-> user_id,
                  tokens |-> pair.tokens]

rotate_refresh_token(store, raw_refresh_token, device_id, device_name, t, raw_token) ==
    LET active == get_active_refresh_token(store, raw_refresh_token, t)
    IN  IF ~active.ok
        THEN [ok |-> FALSE, error |-> active.error, dirty |-> <<>>, new |-> <<>>,
              user_id |-> 0, tokens |-> NoData]
        ELSE LET user_id == store[active.token].user_id
                 pair == issue_token_pair(user_id, device_id, device_name, t, raw_token)
             IN  [ok |-> TRUE, error |-> NoError,
                  dirty |-> <<Dirty(active.token, t)>>,
                  new |-> <<pair.added>>,
                  user_id |-> user_id,
                  tokens |-> pair.tokens]

\* Variant: reports whether the record changed, not whether it was found.
revoke_reports_change(store, raw_refresh_token, t) ==
    LET token == FirstByHash(store, _hash_token(raw_refresh_token))
    IN  IF token = 0
        THEN [revoked |-> FALSE, dirty |-> <<>>]
        ELSE IF store[token].revoked_at = NULL
        THEN [revoked |-> TRUE, dirty |-> <<Dirty(token, t)>>]
        ELSE [revoked |-> FALSE, dirty |-> <<>>]

\* Variant: an expired record is reported found but left as it is.
revoke_skips_expired(store, raw_refresh_token, t) ==
    LET token == FirstByHash(store, _hash_token(raw_refresh_token))
    IN  IF token = 0
        THEN [revoked |-> FALSE, dirty |-> <<>>]
        ELSE IF store[token].revoked_at = NULL /\ store[token].expires_at > t
        THEN [revoked |-> TRUE, dirty |-> <<Dirty(token, t)>>]
        ELSE [revoked |-> TRUE, dirty |-> <<>>]

revoke_refresh_token(store, raw_refresh_token, t) ==
    LET token == FirstByHash(store, _hash_token(raw_refresh_token))
    IN  IF token = 0
        THEN [revoked |-> FALSE, dirty |-> <<>>]
        ELSE IF store[token].revoked_at = NULL
        THEN [revoked |-> TRUE, dirty |-> <<Dirty(token, t)>>]
        ELSE [revoked |-> TRUE, dirty |-> <<>>]

----------------------------------------------------------------------------
(* Verification of access tokens (utils/jwt_service.py) and of the          *)
(* Authorization header (routes/api_v1.py)                                  *)

\* jwt.decode(token, key, algorithms=["HS256"], audience=..., issuer=...):
\* the signature is verified first, then the claims in the order exp, iss,
\* aud.  A token expires when exp <= now.
jwt_decode(token, key, audience, issuer, t) ==
    IF token.alg # "HS256" \/ token.key # key
    THEN [ok |-> FALSE, error |-> "InvalidSignatureError"]
    ELSE IF token.payload.exp <= Timestamp(t)
    THEN [ok |-> FALSE, error |-> "ExpiredSignatureError"]
    ELSE IF token.payload.iss # issuer
    THEN [ok |-> FALSE, error |-> "InvalidIssuerError"]
    ELSE IF token.payload.aud # audience
    THEN [ok |-> FALSE, error |-> "InvalidAudienceError"]
    ELSE [ok |-> TRUE, error |-> ""]

\* Variant: the type claim is not looked at.
parse_access_token_any_type(token, t) ==
    LET decoded == jwt_decode(token, config.JWT_SECRET_KEY, config.JWT_AUDIENCE,
                              config.JWT_ISSUER, t)
    IN  IF ~decoded.ok /\ decoded.error = "ExpiredSignatureError"
        THEN [ok |-> FALSE, payload |-> NoData,
              error |-> AuthError("AUTH_TOKEN_EXPIRED", "access token expired", 401)]
        ELSE IF ~decoded.ok
        THEN [ok |-> FALSE, payload |-> NoData,
              error |-> AuthError("AUTH_INVALID_TOKEN", "invalid access token", 401)]
        ELSE [ok |-> TRUE, payload |-> token.payload, error |-> NoError]

parse_access_token(token, t) ==
    LET decoded == jwt_decode(token, config.JWT_SECRET_KEY, config.JWT_AUDIENCE,
                              config.JWT_ISSUER, t)
    IN  IF ~decoded.ok /\ decoded.error = "ExpiredSignatureError"
        THEN [ok |-> FALSE, payload |-> NoData,
              error |-> AuthError("AUTH_TOKEN_EXPIRED", "access token expired", 401)]
        ELSE IF ~decoded.ok
        THEN [ok |-> FALSE, payload |-> NoData,
              error |-> AuthError("AUTH_INVALID_TOKEN", "invalid access token", 401)]
        ELSE IF token.payload.type # "access"
        THEN [ok |-> FALSE, payload |-> NoData,
              error |-> AuthError("AUTH_INVALID_TOKEN", "wrong token type", 401)]
        ELSE [ok |-> TRUE, payload |-> token.payload, error |-> NoError]

\* db.session.get(User, user_id); 0 stands for None.
UserById(user_id) ==
    IF \E i \in 1..Len(UserTable) : UserTable[i].id = user_id
    THEN CHOOSE i \in 1..Len(UserTable) : UserTable[i].id = user_id
    ELSE 0

\* Variant: a token is accepted only while its user has an active refresh
\* record.
get_user_with_active_refresh(token, t) ==
    LET parsed == parse_access_token(token, t)
    IN  IF ~parsed.ok
        THEN [ok |-> FALSE, user |-> 0, error |-> parsed.error]
        ELSE IF int(parsed.payload.sub) = NULL
        THEN [ok |-> FALSE, user |-> 0,
              error |-> AuthError("AUTH_INVALID_TOKEN", "malformed access token", 401)]
        ELSE IF UserById(int(parsed.payload.sub)) = 0
        THEN [ok |-> FALSE, user |-> 0,
              error |-> AuthError("AUTH_INVALID_TOKEN", "token user not found", 401)]
        ELSE IF ~\E i \in 1..Len(tokens) :
                    /\ tokens[i].user_id = int(parsed.payload.sub)
                    /\ tokens[i].revoked_at = NULL
        THEN [ok |-> FALSE, user |-> 0,
              error |-> AuthError("AUTH_INVALID_TOKEN", "session closed", 401)]
        ELSE [ok |-> TRUE, user |-> UserById(int(parsed.payload.sub)), error |-> NoError]

get_user_from_access_token(token, t) ==
    LET parsed == parse_access_token(token, t)
    IN  IF ~parsed.ok
        THEN [ok |-> FALSE, user |-> 0, error |-> parsed.error]
        ELSE IF int(parsed.payload.sub) = NULL
        THEN [ok |-> FALSE, user |-> 0,
              error |-> AuthError("AUTH_INVALID_TOKEN", "malformed access token", 401)]
        ELSE IF UserById(int(parsed.payload.sub)) = 0
        THEN [ok |-> FALSE, user |-> 0,
              error |-> AuthError("AUTH_INVALID_TOKEN", "token user not found", 401)]
        ELSE [ok |-> TRUE, user |-> UserById(int(parsed.payload.sub)), error |-> NoError]

\* The Authorization header: absent, of another scheme, "Bearer " followed
\* by nothing, or "Bearer " followed by a token.
\* The empty string after "Bearer ".
EmptyToken == [payload |-> NoData, key |-> "", alg |-> ""]

NoHeader == [scheme |-> "", token |-> EmptyToken]

_bearer_token(auth_header) ==
    IF auth_header.scheme = ""
    THEN [ok |-> FALSE, token |-> EmptyToken,
          error |-> AuthError("AUTH_REQUIRED", "authorization token required", 401)]
    ELSE IF auth_header.scheme # "Bearer"
    THEN [ok |-> FALSE, token |-> EmptyToken,
          error |-> AuthError("AUTH_INVALID_TOKEN", "malformed authorization header", 401)]
    ELSE IF auth_header.token = EmptyToken
    THEN [ok |-> FALSE, token |-> EmptyToken,
          error |-> AuthError("AUTH_INVALID_TOKEN", "empty authorization token", 401)]
    ELSE [ok |-> TRUE, token |-> auth_header.token, error |-> NoError]

\* Access tokens a client can present at time t: the tokens issued so far
\* to the users in UserIds, and copies of them with one part forged.
IssuedAccessTokens(UserIds, t) ==
    {_issue_access_token(u, iat).token : u \in UserIds, iat \in 0..t}

Forgeries(token) ==
    {token,
     [token EXCEPT !.key = "attacker-key"],
     [token EXCEPT !.payload.iss = "other-issuer"],
     [token EXCEPT !.payload.aud = "other-audience"],
     [token EXCEPT !.payload.type = "refresh"],
     [token EXCEPT !.payload.sub = "abc"],
     [token EXCEPT !.payload.sub = "9"]}

HeaderInputs(UserIds, forge, t) ==
    {NoHeader, [scheme |-> "Basic", token |-> EmptyToken],
     [scheme |-> "Bearer", token |-> EmptyToken]}
    \cup {[scheme |-> "Bearer", token |-> f] :
             f \in UNION {IF forge THEN Forgeries(a) ELSE {a} :
                             a \in IssuedAccessTokens(UserIds, t)}}

----------------------------------------------------------------------------
(* db.session.commit(): flush the UPDATEs and INSERTs of the session in one *)
(* transaction.                                                            *)

\* Variant: a revocation also moves the expiry of the record to its time.
FlushDirty_expires(store, dirty) ==
    IF dirty = <<>>
    THEN store
    ELSE [store EXCEPT ![dirty[1].token].revoked_at = dirty[1].revoked_at,
                       ![dirty[1].token].last_used_at = dirty[1].last_used_at,
                       ![dirty[1].token].expires_at = dirty[1].revoked_at]

\* UPDATE refresh_tokens SET revoked_at=?, last_used_at=? WHERE id=?
FlushDirty(store, dirty) ==
    IF dirty = <<>>
    THEN store
    ELSE [store EXCEPT ![dirty[1].token].revoked_at = dirty[1].revoked_at,
                       ![dirty[1].token].last_used_at = dirty[1].last_used_at]

\* INSERT INTO refresh_tokens: the row gets the next id and created_at = now.
InsertRow(store, row, t) ==
    Append(store, [row EXCEPT !.id = Len(store) + 1, !.created_at = t])

\* Variant: token_hash carries no UNIQUE constraint.
session_commit_no_unique(store, dirty, new, t) ==
    LET updated == FlushDirty(store, dirty)
    IN  IF new = <<>>
        THEN [ok |-> TRUE, store |-> updated]
        ELSE [ok |-> TRUE, store |-> InsertRow(updated, new[1], t)]

\* Variant: every statement is committed on its own, so the UPDATE survives
\* the failure of the INSERT.
session_commit_autocommit(store, dirty, new, t) ==
    LET updated == FlushDirty(store, dirty)
    IN  IF new = <<>>
        THEN [ok |-> TRUE, store |-> updated]
        ELSE IF FirstByHash(updated, new[1].token_hash) # 0
        THEN [ok |-> FALSE, store |-> updated]
        ELSE [ok |-> TRUE, store |-> InsertRow(updated, new[1], t)]

\* token_hash is UNIQUE: an INSERT of a hash already in the table raises
\* IntegrityError and the transaction is rolled back as a whole.
session_commit(store, dirty, new, t) ==
    LET updated == FlushDirty(store, dirty)
    IN  IF new = <<>>
        THEN [ok |-> TRUE, store |-> updated]
        ELSE IF FirstByHash(updated, new[1].token_hash) # 0
        THEN [ok |-> FALSE, store |-> store]
        ELSE [ok |-> TRUE, store |-> InsertRow(updated, new[1], t)]

----------------------------------------------------------------------------
(* What a worker sees of a secret when it reads it (spec section 3):        *)
(* whether a record exists, is revoked, is expired.                        *)

RecordState(store, raw_token, t) ==
    LET hits == {i \in 1..Len(store) : store[i].token_hash = _hash_token(raw_token)}
    IN  [exists |-> hits # {},
         revoked |-> \E i \in hits : store[i].revoked_at # NULL,
         expired |-> \E i \in hits : store[i].expires_at <= t]

\* secrets.token_urlsafe(48) returns a value that is new or, with negligible
\* probability, one handed out before.  All unused values behave alike, so
\* the new value is represented by the smallest unused one.
UsedSecrets ==
    {s \in Secrets :
        \/ \E i \in 1..Len(tokens) : tokens[i].token_hash = _hash_token(s)
        \/ \E q \in Procs : pc[q] = "refresh_commit" /\ sess[q].tokens.refresh_token = s}

token_urlsafe ==
    UsedSecrets \cup {s \in Secrets \ UsedSecrets : \A u \in Secrets \ UsedSecrets : s <= u}

\* The table is bounded: a request that may INSERT starts only while the
\* table has fewer than MaxTokens rows.
Room == Len(tokens) < MaxTokens

Reply(req, resp) == last' = [req |-> req, resp |-> resp]

----------------------------------------------------------------------------
(* Initial state: empty table, all workers idle *)

Init ==
    /\ now = 0
    /\ tokens = <<>>
    /\ pc = [p \in Procs |-> "idle"]
    /\ sess = [p \in Procs |-> NoSession]
    /\ last = [req |-> [op |-> "none"], resp |-> api_success(NoData)]
    /\ accepted = [s \in Secrets |-> 0]
    /\ loggedOut = {}
    /\ issued = [s \in Secrets |-> NoIssue]
    /\ config = DefaultConfig
    /\ utcnow = 0
    /\ codes = <<>>
    /\ password_hash = [u \in {1, 2} |-> UserTable[u].password_hash]
    /\ audit = <<>>
    /\ outbox = <<>>
    /\ peak = <<>>
    /\ palettes = <<>>
    /\ paging = NoPaging
    /\ cursor = NoCursor

----------------------------------------------------------------------------
(* POST /api/v1/auth/login.  The rate limiter (an external collaborator)   *)
(* answers allowed or blocked; the request fields are read in the order of *)
(* the handler, so a request records only what the handler got to read.    *)

\* Variant: an unknown username gets a message of its own.
login_names_unknown_user(p, devices) ==
    /\ pc[p] = "idle"
    /\ \/ /\ Reply([op |-> "login", limited |-> "ip"],
                   api_error("RATE_LIMITED", "too many login attempts", 429))
          /\ UNCHANGED <<tokens, issued>>
       \/ \E username \in UsernameInputs :
          /\ Reply([op |-> "login", limited |-> "user", username |-> username],
                   api_error("RATE_LIMITED", "too many login attempts for this user", 429))
          /\ UNCHANGED <<tokens, issued>>
       \/ \E cred \in CredentialInputs :
          LET username == cred[1]
              password == cred[2]
              req == [op |-> "login", limited |-> "none", username |-> username,
                      password |-> password]
              user == UserByUsername(username)
          IN  IF username = "" \/ password = ""
              THEN /\ Reply(req, api_error("VALIDATION_ERROR", "username and password required", 400))
                   /\ UNCHANGED <<tokens, issued>>
              ELSE IF user = 0
              THEN /\ Reply(req, api_error("AUTH_INVALID_CREDENTIALS", "unknown username", 401))
                   /\ UNCHANGED <<tokens, issued>>
              ELSE IF ~check_password_hash(password_hash[UserTable[user].id], password)
              THEN /\ Reply(req, api_error("AUTH_INVALID_CREDENTIALS", "wrong username or password", 401))
                   /\ UNCHANGED <<tokens, issued>>
              ELSE \E dev \in devices, raw_token \in token_urlsafe :
                   LET pair == issue_token_pair(UserTable[user].id,
                                                NormDeviceId(dev.device_id),
                                                NormDeviceName(dev.device_name),
                                                now, raw_token)
                       commit == session_commit(tokens, <<>>, <<pair.added>>, now)
                   IN  /\ Room
                       /\ tokens' = commit.store
                       /\ IF commit.ok
                          THEN /\ Reply(req, api_success(
                                      [access_token |-> pair.tokens.access_token,
                                       refresh_token |-> pair.tokens.refresh_token,
                                       expires_in |-> pair.tokens.expires_in,
                                       token_type |-> pair.tokens.token_type,
                                       user |-> [id |-> UserTable[user].id,
                                                 username |-> UserTable[user].username]]))
                               /\ issued' = [issued EXCEPT ![raw_token] =
                                      [user_id |-> UserTable[user].id, issued_at |-> now]]
                          ELSE /\ Reply(req, InternalServerError)
                               /\ UNCHANGED issued
    /\ UNCHANGED <<now, pc, sess, accepted, loggedOut>>

login(p, devices) ==
    /\ pc[p] = "idle"
    /\ \/ /\ Reply([op |-> "login", limited |-> "ip"],
                   api_error("RATE_LIMITED", "too many login attempts", 429))
          /\ UNCHANGED <<tokens, issued>>
       \/ \E username \in UsernameInputs :
          /\ Reply([op |-> "login", limited |-> "user", username |-> username],
                   api_error("RATE_LIMITED", "too many login attempts for this user", 429))
          /\ UNCHANGED <<tokens, issued>>
       \/ \E cred \in CredentialInputs :
          LET username == cred[1]
              password == cred[2]
              req == [op |-> "login", limited |-> "none", username |-> username,
                      password |-> password]
              user == UserByUsername(username)
          IN  IF username = "" \/ password = ""
              THEN /\ Reply(req, api_error("VALIDATION_ERROR", "username and password required", 400))
                   /\ UNCHANGED <<tokens, issued>>
              ELSE IF user = 0 \/ ~check_password_hash(password_hash[UserTable[user].id], password)
              THEN /\ Reply(req, api_error("AUTH_INVALID_CREDENTIALS", "wrong username or password", 401))
                   /\ UNCHANGED <<tokens, issued>>
              ELSE \E dev \in devices, raw_token \in token_urlsafe :
                   LET pair == issue_token_pair(UserTable[user].id,
                                                NormDeviceId(dev.device_id),
                                                NormDeviceName(dev.device_name),
                                                now, raw_token)
                       commit == session_commit(tokens, <<>>, <<pair.added>>, now)
                   IN  /\ Room
                       /\ tokens' = commit.store
                       /\ IF commit.ok
                          THEN /\ Reply(req, api_success(
                                      [access_token |-> pair.tokens.access_token,
                                       refresh_token |-> pair.tokens.refresh_token,
                                       expires_in |-> pair.tokens.expires_in,
                                       token_type |-> pair.tokens.token_type,
                                       user |-> [id |-> UserTable[user].id,
                                                 username |-> UserTable[user].username]]))
                               /\ issued' = [issued EXCEPT ![raw_token] =
                                      [user_id |-> UserTable[user].id, issued_at |-> now]]
                          ELSE /\ Reply(req, InternalServerError)
                               /\ UNCHANGED issued
    /\ UNCHANGED <<now, pc, sess, accepted, loggedOut>>

----------------------------------------------------------------------------
(* POST /api/v1/auth/refresh *)

\* Variant: a refused secret that belongs to a record costs its user every
\* unrevoked record.
session_rollback_revokes_user(store, raw_token, t) ==
    LET token == FirstByHash(store, _hash_token(raw_token))
    IN  IF token = 0 THEN store
        ELSE [i \in 1..Len(store) |->
                IF store[i].user_id = store[token].user_id /\ store[i].revoked_at = NULL
                THEN [store[i] EXCEPT !.revoked_at = t, !.last_used_at = t]
                ELSE store[i]]

\* except AuthError: db.session.rollback().  The refused request assigned
\* nothing, and nothing is written.
session_rollback(store, raw_token, t) == store

\* Variant: the limiter is consulted after the lookup of the secret, so a
\* blocked request with a secret that is not active gets the lookup's error.
refresh_limits_after_lookup(p, devices) ==
    /\ pc[p] = "idle"
    /\ \/ \E refresh_token \in Secrets :
          /\ Reply([op |-> "refresh", limited |-> TRUE],
                   IF get_active_refresh_token(tokens, refresh_token, now).ok
                   THEN api_error("RATE_LIMITED", "too many refresh requests", 429)
                   ELSE _auth_error_response(
                            rotate_refresh_token(tokens, refresh_token, "android",
                                                 "Android Device", now, Blank).error))
          /\ UNCHANGED <<pc, sess, tokens>>
       \/ \E refresh_token \in {Blank} \cup Secrets, dev \in devices :
          LET req == [op |-> "refresh", limited |-> FALSE,
                      refresh_token |-> refresh_token,
                      device_id |-> dev.device_id,
                      device_name |-> dev.device_name,
                      seen |-> RecordState(tokens, refresh_token, now),
                      after_rotation |-> refresh_token # Blank /\ accepted[refresh_token] > 0,
                      after_logout |-> refresh_token \in loggedOut]
              active == get_active_refresh_token(tokens, refresh_token, now)
          IN  IF refresh_token = Blank
              THEN /\ Reply(req, api_error("VALIDATION_ERROR", "refresh token missing", 400))
                   /\ UNCHANGED <<pc, sess, tokens>>
              ELSE IF ~active.ok
              THEN /\ Reply(req, _auth_error_response(
                            rotate_refresh_token(tokens, refresh_token,
                                                 NormDeviceId(dev.device_id),
                                                 NormDeviceName(dev.device_name),
                                                 now, Blank).error))
                   /\ tokens' = session_rollback(tokens, refresh_token, now)
                   /\ UNCHANGED <<pc, sess>>
              ELSE \E raw_token \in token_urlsafe :
                   LET rotated == rotate_refresh_token(tokens, refresh_token,
                                      NormDeviceId(dev.device_id),
                                      NormDeviceName(dev.device_name), now, raw_token)
                   IN  /\ Room
                       /\ pc' = [pc EXCEPT ![p] = "refresh_commit"]
                       /\ sess' = [sess EXCEPT ![p] =
                              [op |-> "refresh", req |-> req, dirty |-> rotated.dirty,
                               new |-> rotated.new, user_id |-> rotated.user_id,
                               tokens |-> rotated.tokens, issued_at |-> now]]
                       /\ UNCHANGED <<last, tokens>>
    /\ UNCHANGED <<now, accepted, loggedOut, issued>>

\* The handler up to db.session.commit().
refresh(p, devices) ==
    /\ pc[p] = "idle"
    /\ \/ /\ Reply([op |-> "refresh", limited |-> TRUE],
                   api_error("RATE_LIMITED", "too many refresh requests", 429))
          /\ UNCHANGED <<pc, sess, tokens>>
       \/ \E refresh_token \in {Blank} \cup Secrets, dev \in devices :
          LET req == [op |-> "refresh", limited |-> FALSE,
                      refresh_token |-> refresh_token,
                      device_id |-> dev.device_id,
                      device_name |-> dev.device_name,
                      seen |-> RecordState(tokens, refresh_token, now),
                      after_rotation |-> refresh_token # Blank /\ accepted[refresh_token] > 0,
                      after_logout |-> refresh_token \in loggedOut]
              active == get_active_refresh_token(tokens, refresh_token, now)
          IN  IF refresh_token = Blank
              THEN /\ Reply(req, api_error("VALIDATION_ERROR", "refresh token missing", 400))
                   /\ UNCHANGED <<pc, sess, tokens>>
              ELSE IF ~active.ok
              THEN /\ Reply(req, _auth_error_response(
                            rotate_refresh_token(tokens, refresh_token,
                                                 NormDeviceId(dev.device_id),
                                                 NormDeviceName(dev.device_name),
                                                 now, Blank).error))
                   /\ tokens' = session_rollback(tokens, refresh_token, now)
                   /\ UNCHANGED <<pc, sess>>
              ELSE \E raw_token \in token_urlsafe :
                   LET rotated == rotate_refresh_token(tokens, refresh_token,
                                      NormDeviceId(dev.device_id),
                                      NormDeviceName(dev.device_name), now, raw_token)
                   IN  /\ Room
                       /\ pc' = [pc EXCEPT ![p] = "refresh_commit"]
                       /\ sess' = [sess EXCEPT ![p] =
                              [op |-> "refresh", req |-> req, dirty |-> rotated.dirty,
                               new |-> rotated.new, user_id |-> rotated.user_id,
                               tokens |-> rotated.tokens, issued_at |-> now]]
                       /\ UNCHANGED <<last, tokens>>
    /\ UNCHANGED <<now, accepted, loggedOut, issued>>

\* db.session.commit() of the rotation and the response.
refresh_commit(p) ==
    /\ pc[p] = "refresh_commit"
    /\ LET s == sess[p]
           commit == session_commit(tokens, s.dirty, s.new, now)
       IN  /\ tokens' = commit.store
           /\ IF commit.ok
              THEN /\ Reply(s.req, api_success(s.tokens))
                   /\ accepted' = [accepted EXCEPT ![s.req.refresh_token] = @ + 1]
                   /\ issued' = [issued EXCEPT ![s.tokens.refresh_token] =
                          [user_id |-> s.user_id, issued_at |-> s.issued_at]]
              ELSE /\ Reply(s.req, InternalServerError)
                   /\ UNCHANGED <<accepted, issued>>
    /\ pc' = [pc EXCEPT ![p] = "idle"]
    /\ sess' = [sess EXCEPT ![p] = NoSession]
    /\ UNCHANGED <<now, loggedOut>>

----------------------------------------------------------------------------
(* POST /api/v1/auth/logout *)

\* The handler up to db.session.commit().
logout(p) ==
    /\ pc[p] = "idle"
    /\ \E refresh_token \in {Blank} \cup Secrets :
        LET req == [op |-> "logout", refresh_token |-> refresh_token,
                    seen |-> RecordState(tokens, refresh_token, now),
                    after_logout |-> refresh_token \in loggedOut]
            result == revoke_refresh_token(tokens, refresh_token, now)
        IN  IF refresh_token = Blank
            THEN /\ Reply(req, api_error("VALIDATION_ERROR", "refresh token missing", 400))
                 /\ UNCHANGED <<pc, sess>>
            ELSE /\ pc' = [pc EXCEPT ![p] = "logout_commit"]
                 /\ sess' = [sess EXCEPT ![p] =
                        [op |-> "logout", req |-> req, dirty |-> result.dirty,
                         revoked |-> result.revoked]]
                 /\ UNCHANGED last
    /\ UNCHANGED <<now, tokens, accepted, loggedOut, issued>>

\* db.session.commit() of the revocation and the response.
logout_commit(p) ==
    /\ pc[p] = "logout_commit"
    /\ LET s == sess[p]
           commit == session_commit(tokens, s.dirty, <<>>, now)
       IN  /\ tokens' = commit.store
           /\ Reply(s.req, api_success([revoked |-> s.revoked]))
           /\ loggedOut' = IF s.revoked
                           THEN loggedOut \cup {s.req.refresh_token}
                           ELSE loggedOut
    /\ pc' = [pc EXCEPT ![p] = "idle"]
    /\ sess' = [sess EXCEPT ![p] = NoSession]
    /\ UNCHANGED <<now, accepted, issued>>

----------------------------------------------------------------------------
(* GET /api/v1/users/me behind require_api_user: the bearer verification    *)
(* every authenticated route starts with.                                  *)

me(p, headers) ==
    /\ pc[p] = "idle"
    /\ \E auth_header \in headers :
        LET req == [op |-> "me", auth_header |-> auth_header]
            bearer == _bearer_token(auth_header)
            found == get_user_from_access_token(bearer.token, now)
        IN  IF ~bearer.ok
            THEN Reply(req, _auth_error_response(bearer.error))
            ELSE IF ~found.ok
            THEN Reply(req, _auth_error_response(found.error))
            ELSE Reply(req, api_success([id |-> UserTable[found.user].id,
                                         username |-> UserTable[found.user].username]))
    /\ UNCHANGED <<now, tokens, pc, sess, accepted, loggedOut, issued>>

----------------------------------------------------------------------------
(* Password reset (routes/auth.py): contacts, form inputs and the pure      *)
(* helpers of the two handlers.                                            *)

\* UserContact rows: one per user, email and phone each unique; "" for NULL.
ContactTable ==
    <<[user_id |-> 1, email |-> "diana@example.com", phone |-> "+15550100"],
      [user_id |-> 2, email |-> "erin@example.com", phone |-> ""]>>

\* normalize_email / normalize_phone return the normalized contact, or ""
\* for a value that is not an address / not a number of 10 to 15 digits.
normalize_email(raw_value) ==
    IF raw_value \in {"diana@example.com", "erin@example.com", "nobody@example.com"}
    THEN raw_value
    ELSE ""

normalize_phone(raw_value) ==
    IF raw_value \in {"+15550100", "+15550199"} THEN raw_value ELSE ""

_normalize_contact(channel, raw_value) ==
    IF channel = "email" THEN normalize_email(raw_value)
    ELSE IF channel = "phone" THEN normalize_phone(raw_value)
    ELSE ""

\* UserContact.query.filter_by(email=... / phone=...).first(); 0 for None.
_find_user_contact(channel, destination) ==
    LET hits == {i \in 1..Len(ContactTable) :
                    \/ channel = "email" /\ ContactTable[i].email = destination
                    \/ channel = "phone" /\ ContactTable[i].phone = destination}
    IN  IF hits = {} THEN 0 ELSE CHOOSE i \in hits : \A j \in hits : i <= j

\* The characters of the strings the password rules look into.
Chars(text) ==
    CASE text = "Password123!" ->
            <<"P", "a", "s", "s", "w", "o", "r", "d", "1", "2", "3", "!">>
      [] text = "NewPassword123!" ->
            <<"N", "e", "w", "P", "a", "s", "s", "w", "o", "r", "d", "1", "2", "3", "!">>
      [] text = "Diana-Secret-1" ->
            <<"D", "i", "a", "n", "a", "-", "S", "e", "c", "r", "e", "t", "-", "1">>
      [] text = "Second-Pass-123" ->
            <<"S", "e", "c", "o", "n", "d", "-", "P", "a", "s", "s", "-", "1", "2", "3">>
      [] text = "short" -> <<"s", "h", "o", "r", "t">>
      [] text = "diana" -> <<"d", "i", "a", "n", "a">>
      [] text = "erin" -> <<"e", "r", "i", "n">>
      [] text = "created_at" -> <<"c", "r", "e", "a", "t", "e", "d", "_", "a", "t">>
      [] text = "id" -> <<"i", "d">>
      [] OTHER -> <<>>

UpperCase == [P |-> "p", N |-> "n", D |-> "d", S |-> "s"]

isupper(ch) == ch \in DOMAIN UpperCase
islower(ch) == ch \in {"a", "c", "d", "e", "h", "i", "n", "o", "r", "s", "t", "w"}
isdigit(ch) == ch \in {"1", "2", "3"}
isspace(ch) == ch = " "
isalnum(ch) == isupper(ch) \/ islower(ch) \/ isdigit(ch)

lower(chars) == [i \in 1..Len(chars) |->
                    IF isupper(chars[i]) THEN UpperCase[chars[i]] ELSE chars[i]]

\* needle in hay
Contains(hay, needle) ==
    \E i \in 1..(Len(hay) - Len(needle) + 1) :
        SubSeq(hay, i, i + Len(needle) - 1) = needle

\* Returns the message of the first rule that fails, "" (None) when none does.
_validate_password_strength(password, username) ==
    LET chars == Chars(password)
        any(test(_)) == \E i \in 1..Len(chars) : test(chars[i])
        notalnum(ch) == ~isalnum(ch)
    IN  IF ~(10 <= Len(chars) /\ Len(chars) <= 128) THEN "password length 10 to 128"
        ELSE IF any(isspace) THEN "password has spaces"
        ELSE IF ~any(isupper) THEN "password needs an uppercase letter"
        ELSE IF ~any(islower) THEN "password needs a lowercase letter"
        ELSE IF ~any(isdigit) THEN "password needs a digit"
        ELSE IF ~any(notalnum) THEN "password needs a special character"
        ELSE IF username # "" /\ Contains(lower(chars), lower(Chars(username)))
        THEN "password contains the username"
        ELSE ""

\* The columns of password_reset_token that the handler leaves to the table:
\* the attempts counter starts at 0, used_at is nullable, and created_at is
\* set when the row is inserted.
ColumnDefaults == [attempts |-> 0, created_at |-> NULL, used_at |-> NULL]

\* A new password_reset_token row as the handler constructs it.
PasswordResetToken(user_id, channel, destination, code_hash, expires_at) ==
    [id |-> 0,
     user_id |-> user_id,
     channel |-> channel,
     destination |-> destination,
     code_hash |-> code_hash,
     attempts |-> ColumnDefaults.attempts,
     created_at |-> ColumnDefaults.created_at,
     expires_at |-> expires_at,
     used_at |-> ColumnDefaults.used_at]

\* The user's codes that are unused and unexpired at time t.
ActiveCodes(store, user_id, t) ==
    {i \in 1..Len(store) :
        /\ store[i].user_id = user_id
        /\ store[i].used_at = NULL
        /\ store[i].expires_at > t}

\* Variant: the newest active code of the user, whatever its contact.
NewestActive_of_user(store, user_id, channel, destination, t) ==
    LET hits == ActiveCodes(store, user_id, t)
    IN  IF hits = {}
        THEN {0}
        ELSE {i \in hits : \A j \in hits : store[j].created_at <= store[i].created_at}

\* The newest active code for (user, channel, destination); 0 for None.
\* Rows with equal created_at come back in an order the query does not fix.
NewestActive(store, user_id, channel, destination, t) ==
    LET hits == {i \in ActiveCodes(store, user_id, t) :
                    store[i].channel = channel /\ store[i].destination = destination}
    IN  IF hits = {}
        THEN {0}
        ELSE {i \in hits : \A j \in hits : store[j].created_at <= store[i].created_at}

\* f"{secrets.randbelow(1_000_000):06d}"
ResetCodes == {"111111", "222222"}

\* code.isdigit() and len(code) == 6
WellFormedCode(code) == code \in ResetCodes

\* A response of the web routes: the flashed message and the redirect.
flash_redirect(message, category, endpoint) ==
    [flash |-> message, category |-> category, redirect |-> endpoint]

\* The forms the clients post to /forgot-password and /reset-password.
KnownContacts ==
    {<<"email", "diana@example.com">>, <<"phone", "+15550100">>,
     <<"email", "erin@example.com">>}

ForgotForms ==
    {[channel |-> c[1], contact |-> c[2]] : c \in KnownContacts}
    \cup {[channel |-> "email", contact |-> "nobody@example.com"],
          [channel |-> "email", contact |-> "not an address"],
          [channel |-> "fax", contact |-> "diana@example.com"]}

Form(channel, contact, code, new_password, confirm_password) ==
    [channel |-> channel, contact |-> contact, code |-> code,
     new_password |-> new_password, confirm_password |-> confirm_password]

ResetForms ==
    {Form("email", "diana@example.com", code, "NewPassword123!", "NewPassword123!") :
        code \in ResetCodes}
    \cup {Form("email", "diana@example.com", "111111", pw, pw) :
            pw \in {"Password123!", "short", "Diana-Secret-1"}}
    \cup {Form("phone", "+15550100", "111111", "NewPassword123!", "NewPassword123!"),
          Form("fax", "diana@example.com", "111111", "NewPassword123!", "NewPassword123!"),
          Form("phone", "diana@example.com", "111111", "NewPassword123!", "NewPassword123!"),
          Form("email", "diana@example.com", "12", "NewPassword123!", "NewPassword123!"),
          Form("email", "diana@example.com", "111111", "NewPassword123!", "Password123!"),
          Form("email", "nobody@example.com", "111111", "NewPassword123!", "NewPassword123!")}

\* The forms of one user and one contact, for the runs with overlapping
\* requests.
ForgotFormsOne == {[channel |-> "email", contact |-> "diana@example.com"]}

\* The forms of one user and two contacts.
ForgotFormsTwo ==
    {[channel |-> "email", contact |-> "diana@example.com"],
     [channel |-> "phone", contact |-> "+15550100"]}

ResetFormsOne ==
    {Form("email", "diana@example.com", code, "NewPassword123!", "NewPassword123!") :
        code \in ResetCodes}

\* max(5, int(config.get("PASSWORD_RESET_CODE_TTL_MINUTES", 15)))
code_ttl_minutes == Max(5, config.PASSWORD_RESET_CODE_TTL_MINUTES)

\* max(3, int(config.get("PASSWORD_RESET_MAX_ATTEMPTS", 5)))
max_attempts == Max(3, config.PASSWORD_RESET_MAX_ATTEMPTS)

\* Variant: a new code supersedes the active codes of its own channel and
\* destination only.
SupersededBySameContact(store, user_id, channel, destination, t) ==
    {i \in ActiveCodes(store, user_id, t) :
        store[i].channel = channel /\ store[i].destination = destination}

\* The rows matched by the UPDATE that precedes the INSERT of a new code:
\* user_id = ?, used_at IS NULL, expires_at > now, whatever the channel.
SupersededByIssue(store, user_id, channel, destination, t) ==
    ActiveCodes(store, user_id, t)

\* Variant: a confirmed code leaves the user's other codes alone.
SupersededByConfirm_none(store, user_id, token, t) == {}

\* The rows matched by the UPDATE of a successful confirmation: user_id = ?,
\* id != token.id, used_at IS NULL, expires_at > now.
SupersededByConfirm(store, user_id, token, t) ==
    ActiveCodes(store, user_id, t) \ {token}

\* Variant: the submission is refused once attempts is above the maximum.
attempts_above(attempts) == attempts > max_attempts

\* if token.attempts >= max_attempts
attempts_exceeded(attempts) == attempts >= max_attempts

\* UPDATE password_reset_token SET used_at=? WHERE user_id=? AND used_at IS
\* NULL AND expires_at > ?: the rows the statement matched, of which a row
\* another transaction has marked in the meantime is skipped.
Supersede(store, ids, used_at) ==
    [i \in 1..Len(store) |->
        IF i \in ids /\ store[i].used_at = NULL
        THEN [store[i] EXCEPT !.used_at = used_at]
        ELSE store[i]]


----------------------------------------------------------------------------
(* POST /forgot-password *)

\* The response of /forgot-password once the fields and limiters are passed.
generic_response(sent_to) ==
    flash_redirect("if the contact is found, the code was sent", "success", sent_to)

\* The handler up to db.session.commit().
forgot_password(p, forms, randbelow) ==
    /\ pc[p] = "idle"
    /\ \/ /\ Reply([op |-> "forgot_password", limited |-> "ip"],
                   flash_redirect("too many requests", "error", <<"forgot_password">>))
          /\ UNCHANGED <<pc, sess>>
       \/ \E form \in forms, limited \in {"none", "contact"} :
          LET channel == form.channel
              destination == _normalize_contact(channel, form.contact)
              req == [op |-> "forgot_password", limited |-> limited, form |-> form]
              user_contact == _find_user_contact(channel, destination)
              sent_to == <<"reset_password", channel, destination>>
          IN  IF channel \notin {"email", "phone"}
              THEN /\ limited = "none"
                   /\ Reply(req, flash_redirect("choose email or phone", "error",
                                                <<"forgot_password">>))
                   /\ UNCHANGED <<pc, sess>>
              ELSE IF destination = ""
              THEN /\ limited = "none"
                   /\ Reply(req, flash_redirect(
                            IF channel = "email" THEN "enter a valid email"
                            ELSE "enter a valid phone number",
                            "error", <<"forgot_password">>))
                   /\ UNCHANGED <<pc, sess>>
              ELSE IF limited = "contact"
              THEN /\ Reply([op |-> "forgot_password", limited |-> limited,
                             channel |-> channel, destination |-> destination],
                            flash_redirect("too many requests for this contact",
                                           "error", <<"forgot_password">>))
                   /\ UNCHANGED <<pc, sess>>
              ELSE IF user_contact = 0
              THEN /\ Reply(req, generic_response(sent_to))
                   /\ UNCHANGED <<pc, sess>>
              ELSE \E code \in randbelow :
                   LET user_id == ContactTable[user_contact].user_id
                   IN  /\ Len(codes) < MaxCodes
                       /\ pc' = [pc EXCEPT ![p] = "forgot_password_commit"]
                       /\ sess' = [sess EXCEPT ![p] =
                              [op |-> "forgot_password", req |-> req, code |-> code,
                               superseded |-> SupersededByIssue(codes, user_id, channel,
                                                                destination, utcnow),
                               used_at |-> utcnow,
                               new |-> PasswordResetToken(user_id, channel, destination,
                                          generate_password_hash(code),
                                          utcnow + code_ttl_minutes),
                               sent_to |-> sent_to]]
                       /\ UNCHANGED last
    /\ UNCHANGED <<utcnow, codes, password_hash, audit, outbox, peak>>

\* The message flashed in front of the generic one when the code could not
\* be delivered: the code itself, in a debug application only.
delivery_flashes(sent, code) ==
    IF ~sent /\ config.DEBUG
    THEN <<[flash |-> <<"dev code", code>>, category |-> "info"]>>
    ELSE <<>>

\* db.session.commit(), the delivery of the code, which succeeds or not, and
\* the response.
forgot_password_commit(p, delivery) ==
    /\ pc[p] = "forgot_password_commit"
    /\ \E sent \in delivery :
       LET s == sess[p]
           before == delivery_flashes(sent, s.code)
       IN  /\ codes' = Append(Supersede(codes, s.superseded, s.used_at),
                              [s.new EXCEPT !.id = Len(codes) + 1, !.created_at = utcnow])
           /\ audit' = Append(audit, 0)
           /\ outbox' = Append(outbox, sent)
           /\ peak' = Append(peak, 0)
           /\ IF before = <<>>
              THEN Reply(s.req, generic_response(s.sent_to))
              ELSE Reply(s.req, [generic_response(s.sent_to) EXCEPT
                                    !.flash = <<before[1].flash, @>>])
    /\ pc' = [pc EXCEPT ![p] = "idle"]
    /\ sess' = [sess EXCEPT ![p] = NoSession]
    /\ UNCHANGED <<utcnow, password_hash>>

----------------------------------------------------------------------------
(* POST /reset-password *)

\* The outcomes of a submission, by the message flashed.
CodeNotFound == "code not found or expired"
AttemptsExceeded == "attempts exceeded"
CodeMismatch == "wrong reset code"
PasswordUpdated == "password updated"

\* Variant: a submission with the right code and a rejected new password is
\* counted like one with a wrong code.
reset_password_counts_rejected(p, forms) ==
    /\ pc[p] = "idle"
    /\ \/ /\ Reply([op |-> "reset_password", limited |-> "ip"],
                   flash_redirect("too many reset attempts", "error", <<"reset_password">>))
          /\ UNCHANGED <<pc, sess>>
       \/ \E form \in forms, limited \in {"none", "contact"} :
          LET channel == form.channel
              destination == _normalize_contact(channel, form.contact)
              req == [op |-> "reset_password", limited |-> limited, form |-> form]
              user_contact == _find_user_contact(channel, destination)
              user_id == ContactTable[user_contact].user_id
              back == <<"reset_password", channel, destination>>
              Answer(message, endpoint) ==
                  /\ Reply(req, flash_redirect(message, "error", endpoint))
                  /\ UNCHANGED <<pc, sess>>
          IN  IF channel \notin {"email", "phone"}
              THEN limited = "none" /\ Answer("choose email or phone", <<"reset_password">>)
              ELSE IF destination = ""
              THEN /\ limited = "none"
                   /\ Answer(IF channel = "email" THEN "enter a valid email"
                              ELSE "enter a valid phone number", <<"reset_password">>)
              ELSE IF ~WellFormedCode(form.code)
              THEN limited = "none" /\ Answer("the code has 6 digits", back)
              ELSE IF form.new_password # form.confirm_password
              THEN limited = "none" /\ Answer("passwords differ", back)
              ELSE IF user_contact = 0
              THEN limited = "none" /\ Answer("wrong code or contact", back)
              ELSE IF limited = "contact"
              THEN /\ Reply([op |-> "reset_password", limited |-> limited,
                             channel |-> channel, destination |-> destination],
                            flash_redirect("too many attempts for this contact", "error", back))
                   /\ UNCHANGED <<pc, sess>>
              ELSE \E token \in NewestActive(codes, user_id, channel, destination, utcnow) :
                   IF token = 0
                   THEN Answer(CodeNotFound, <<"forgot_password">>)
                   ELSE IF attempts_exceeded(codes[token].attempts)
                   THEN Answer(AttemptsExceeded, <<"forgot_password">>)
                   ELSE IF ~check_password_hash(codes[token].code_hash, form.code)
                   THEN /\ audit[token] < max_attempts + MaxExcess
                        /\ pc' = [pc EXCEPT ![p] = "reset_password_commit"]
                        /\ sess' = [sess EXCEPT ![p] =
                               [op |-> "reset_password", req |-> req, matched |-> FALSE,
                                token |-> token, attempts |-> codes[token].attempts + 1,
                                back |-> back]]
                        /\ UNCHANGED last
                   ELSE IF _validate_password_strength(form.new_password,
                               UserTable[UserById(user_id)].username) # ""
                          \/ check_password_hash(password_hash[user_id], form.new_password)
                   THEN /\ pc' = [pc EXCEPT ![p] = "reset_password_commit"]
                        /\ sess' = [sess EXCEPT ![p] =
                               [op |-> "reset_password", req |-> req, matched |-> FALSE,
                                token |-> token, attempts |-> codes[token].attempts + 1,
                                back |-> back]]
                        /\ UNCHANGED last
                   ELSE /\ pc' = [pc EXCEPT ![p] = "reset_password_commit"]
                        /\ sess' = [sess EXCEPT ![p] =
                               [op |-> "reset_password", req |-> req, matched |-> TRUE,
                                token |-> token, used_at |-> utcnow, user_id |-> user_id,
                                password_hash |-> generate_password_hash(form.new_password),
                                superseded |-> SupersededByConfirm(codes, user_id, token,
                                                                   utcnow)]]
                        /\ UNCHANGED last
    /\ UNCHANGED <<utcnow, codes, password_hash, audit, outbox, peak>>

\* The handler up to db.session.commit(), or to the response when it
\* commits nothing.
reset_password(p, forms) ==
    /\ pc[p] = "idle"
    /\ \/ /\ Reply([op |-> "reset_password", limited |-> "ip"],
                   flash_redirect("too many reset attempts", "error", <<"reset_password">>))
          /\ UNCHANGED <<pc, sess>>
       \/ \E form \in forms, limited \in {"none", "contact"} :
          LET channel == form.channel
              destination == _normalize_contact(channel, form.contact)
              req == [op |-> "reset_password", limited |-> limited, form |-> form]
              user_contact == _find_user_contact(channel, destination)
              user_id == ContactTable[user_contact].user_id
              back == <<"reset_password", channel, destination>>
              Answer(message, endpoint) ==
                  /\ Reply(req, flash_redirect(message, "error", endpoint))
                  /\ UNCHANGED <<pc, sess>>
          IN  IF channel \notin {"email", "phone"}
              THEN limited = "none" /\ Answer("choose email or phone", <<"reset_password">>)
              ELSE IF destination = ""
              THEN /\ limited = "none"
                   /\ Answer(IF channel = "email" THEN "enter a valid email"
                              ELSE "enter a valid phone number", <<"reset_password">>)
              ELSE IF ~WellFormedCode(form.code)
              THEN limited = "none" /\ Answer("the code has 6 digits", back)
              ELSE IF form.new_password # form.confirm_password
              THEN limited = "none" /\ Answer("passwords differ", back)
              ELSE IF user_contact = 0
              THEN limited = "none" /\ Answer("wrong code or contact", back)
              ELSE IF limited = "contact"
              THEN /\ Reply([op |-> "reset_password", limited |-> limited,
                             channel |-> channel, destination |-> destination],
                            flash_redirect("too many attempts for this contact", "error", back))
                   /\ UNCHANGED <<pc, sess>>
              ELSE \E token \in NewestActive(codes, user_id, channel, destination, utcnow) :
                   IF token = 0
                   THEN Answer(CodeNotFound, <<"forgot_password">>)
                   ELSE IF attempts_exceeded(codes[token].attempts)
                   THEN Answer(AttemptsExceeded, <<"forgot_password">>)
                   ELSE IF ~check_password_hash(codes[token].code_hash, form.code)
                   THEN /\ audit[token] < max_attempts + MaxExcess
                        /\ pc' = [pc EXCEPT ![p] = "reset_password_commit"]
                        /\ sess' = [sess EXCEPT ![p] =
                               [op |-> "reset_password", req |-> req, matched |-> FALSE,
                                token |-> token, attempts |-> codes[token].attempts + 1,
                                back |-> back]]
                        /\ UNCHANGED last
                   ELSE IF _validate_password_strength(form.new_password,
                               UserTable[UserById(user_id)].username) # ""
                   THEN Answer(_validate_password_strength(form.new_password,
                               UserTable[UserById(user_id)].username), back)
                   ELSE IF check_password_hash(password_hash[user_id], form.new_password)
                   THEN Answer("the new password must differ from the current one", back)
                   ELSE /\ pc' = [pc EXCEPT ![p] = "reset_password_commit"]
                        /\ sess' = [sess EXCEPT ![p] =
                               [op |-> "reset_password", req |-> req, matched |-> TRUE,
                                token |-> token, used_at |-> utcnow, user_id |-> user_id,
                                password_hash |-> generate_password_hash(form.new_password),
                                superseded |-> SupersededByConfirm(codes, user_id, token,
                                                                   utcnow)]]
                        /\ UNCHANGED last
    /\ UNCHANGED <<utcnow, codes, password_hash, audit, outbox, peak>>

\* token.attempts += 1 is flushed as UPDATE password_reset_token SET
\* attempts=<the value computed by the session> WHERE id=?
UpdateAttempts(store, token, attempts) ==
    [store EXCEPT ![token].attempts = attempts]

\* Variant: the commit of a new password also revokes the refresh tokens of
\* the user.
reset_password_commit_closes_sessions(p) ==
    /\ pc[p] = "reset_password_commit"
    /\ LET s == sess[p]
       IN  IF ~s.matched
           THEN /\ codes' = UpdateAttempts(codes, s.token, s.attempts)
                /\ audit' = [audit EXCEPT ![s.token] = @ + 1]
                /\ peak' = [peak EXCEPT ![s.token] = Max(@, s.attempts)]
                /\ Reply(s.req, flash_redirect(CodeMismatch, "error", s.back))
                /\ UNCHANGED <<password_hash, tokens>>
           ELSE /\ password_hash' = [password_hash EXCEPT ![s.user_id] = s.password_hash]
                /\ codes' = Supersede([codes EXCEPT ![s.token].used_at = s.used_at],
                                      s.superseded, s.used_at)
                /\ tokens' = [i \in 1..Len(tokens) |->
                                 IF tokens[i].user_id = s.user_id /\ tokens[i].revoked_at = NULL
                                 THEN [tokens[i] EXCEPT !.revoked_at = now]
                                 ELSE tokens[i]]
                /\ Reply(s.req, flash_redirect(PasswordUpdated, "success", <<"login">>))
                /\ UNCHANGED <<audit, peak>>
    /\ pc' = [pc EXCEPT ![p] = "idle"]
    /\ sess' = [sess EXCEPT ![p] = NoSession]
    /\ UNCHANGED <<utcnow, outbox>>

\* db.session.commit() and the response.  The session holds the user row and
\* password_reset_token rows only: no other table is written.
reset_password_commit(p) ==
    /\ pc[p] = "reset_password_commit"
    /\ LET s == sess[p]
       IN  IF ~s.matched
           THEN /\ codes' = UpdateAttempts(codes, s.token, s.attempts)
                /\ audit' = [audit EXCEPT ![s.token] = @ + 1]
                /\ peak' = [peak EXCEPT ![s.token] = Max(@, s.attempts)]
                /\ Reply(s.req, flash_redirect(CodeMismatch, "error", s.back))
                /\ UNCHANGED password_hash
           ELSE /\ password_hash' = [password_hash EXCEPT ![s.user_id] = s.password_hash]
                /\ codes' = Supersede([codes EXCEPT ![s.token].used_at = s.used_at],
                                      s.superseded, s.used_at)
                /\ Reply(s.req, flash_redirect(PasswordUpdated, "success", <<"login">>))
                /\ UNCHANGED <<audit, peak>>
    /\ pc' = [pc EXCEPT ![p] = "idle"]
    /\ sess' = [sess EXCEPT ![p] = NoSession]
    /\ UNCHANGED <<utcnow, outbox, tokens>>

\* The clock of routes/auth.py advances while no request is between its
\* read and its commit.  The handlers compare the clock with the expiry of
\* stored codes only, so the clock is observed every TickStep minutes and at
\* the expiry of each stored code.
TickMinute ==
    /\ \A p \in Procs : pc[p] = "idle"
    /\ \E t \in (utcnow + 1)..MaxMinutes :
          /\ \/ t = utcnow + TickStep
             \/ \E i \in 1..Len(codes) : codes[i].expires_at = t
          /\ utcnow' = t
    /\ UNCHANGED <<codes, password_hash, audit, outbox, peak, pc, sess, last>>

----------------------------------------------------------------------------
(* Text and bytes (utils/pagination.py).  A Python str is a sequence of     *)
(* one-character strings, a bytes object a sequence of integers 0..255.    *)

\* The printable ASCII characters, code points 32 to 126 ("grave" is the
\* grave accent, "e-acute" below is U+00E9).
Ascii ==
    <<" ", "!", "\"", "#", "$", "%", "&", "'", "(", ")", "*", "+", ",", "-", ".", "/",
      "0", "1", "2", "3", "4", "5", "6", "7", "8", "9", ":", ";", "<", "=", ">", "?",
      "@", "A", "B", "C", "D", "E", "F", "G", "H", "I", "J", "K", "L", "M", "N", "O",
      "P", "Q", "R", "S", "T", "U", "V", "W", "X", "Y", "Z", "[", "\\", "]", "^", "_",
      "grave", "a", "b", "c", "d", "e", "f", "g", "h", "i", "j", "k", "l", "m", "n", "o",
      "p", "q", "r", "s", "t", "u", "v", "w", "x", "y", "z", "{", "|", "}", "~">>

IsAscii(ch) == \E i \in 1..Len(Ascii) : Ascii[i] = ch

ord(ch) == 31 + CHOOSE i \in 1..Len(Ascii) : Ascii[i] = ch

\* A control character stands for all of them.
chr(b) == IF b >= 32 /\ b <= 126 THEN Ascii[b - 31] ELSE "ctl"

\* An exception, and a value returned.
Raise(exception) == [raised |-> exception, value |-> NULL]
Return(value) == [raised |-> "", value |-> value]

\* The classes an except clause for class caught catches.
Bases ==
    [binascii_Error |-> {"binascii_Error", "ValueError"},
     UnicodeDecodeError |-> {"UnicodeDecodeError", "UnicodeError", "ValueError"},
     UnicodeEncodeError |-> {"UnicodeEncodeError", "UnicodeError", "ValueError"},
     JSONDecodeError |-> {"JSONDecodeError", "ValueError"},
     ValueError |-> {"ValueError"},
     TypeError |-> {"TypeError"},
     KeyError |-> {"KeyError", "LookupError"},
     OverflowError |-> {"OverflowError", "ArithmeticError"},
     RecursionError |-> {"RecursionError", "RuntimeError"}]

\* str.encode("utf-8") of ASCII text, and str.encode("ascii").
encode_ascii(text) ==
    IF \A i \in 1..Len(text) : IsAscii(text[i])
    THEN Return([i \in 1..Len(text) |-> ord(text[i])])
    ELSE Raise("UnicodeEncodeError")

\* bytes.decode("utf-8"): ASCII bytes, and the two-byte sequence of U+00E9;
\* every other byte above 127 is malformed here.
decode_utf8(data) ==
    LET n == Len(data)
        lead(i) == data[i] = 195 /\ i < n /\ data[i + 1] = 169
        continuation(i) == data[i] = 169 /\ i > 1 /\ data[i - 1] = 195
        text_at(starts) ==
            [k \in 1..Len(starts) |->
                IF lead(starts[k]) THEN "e-acute" ELSE chr(data[starts[k]])]
    IN  IF \E i \in 1..n : data[i] >= 128 /\ ~lead(i) /\ ~continuation(i)
        THEN Raise("UnicodeDecodeError")
        ELSE Return(text_at(SelectSeq([i \in 1..n |-> i], LAMBDA i : ~continuation(i))))

\* The URL-safe base64 alphabet, values 0 to 63.
UrlSafe ==
    <<"A", "B", "C", "D", "E", "F", "G", "H", "I", "J", "K", "L", "M", "N", "O", "P",
      "Q", "R", "S", "T", "U", "V", "W", "X", "Y", "Z", "a", "b", "c", "d", "e", "f",
      "g", "h", "i", "j", "k", "l", "m", "n", "o", "p", "q", "r", "s", "t", "u", "v",
      "w", "x", "y", "z", "0", "1", "2", "3", "4", "5", "6", "7", "8", "9", "-", "_">>

\* base64.urlsafe_b64encode
RECURSIVE urlsafe_b64encode(_)
urlsafe_b64encode(data) ==
    IF data = <<>> THEN <<>>
    ELSE LET n == Len(data)
             b1 == data[1]
             b2 == IF n >= 2 THEN data[2] ELSE 0
             b3 == IF n >= 3 THEN data[3] ELSE 0
             c1 == UrlSafe[(b1 \div 4) + 1]
             c2 == UrlSafe[((b1 % 4) * 16 + (b2 \div 16)) + 1]
             c3 == UrlSafe[((b2 % 16) * 4 + (b3 \div 64)) + 1]
             c4 == UrlSafe[(b3 % 64) + 1]
         IN  IF n = 1 THEN <<c1, c2, "=", "=">>
             ELSE IF n = 2 THEN <<c1, c2, c3, "=">>
             ELSE <<c1, c2, c3, c4>> \o urlsafe_b64encode(SubSeq(data, 4, n))

\* str.rstrip("=")
RECURSIVE rstrip_pad(_)
rstrip_pad(text) ==
    IF text # <<>> /\ text[Len(text)] = "="
    THEN rstrip_pad(SubSeq(text, 1, Len(text) - 1))
    ELSE text

_pad_base64(value) ==
    LET padding == (4 - (Len(value) % 4)) % 4
    IN  value \o [i \in 1..padding |-> "="]

\* The value of a character after urlsafe_b64decode has translated "-" and
\* "_" to "+" and "/"; 64 for a character outside the alphabet.
table_a2b_base64(ch) ==
    IF ch = "+" THEN 62
    ELSE IF ch = "/" THEN 63
    ELSE IF \E v \in 1..64 : UrlSafe[v] = ch
    THEN (CHOOSE v \in 1..64 : UrlSafe[v] = ch) - 1
    ELSE 64

\* binascii.a2b_base64 without strict mode.  Characters outside the alphabet
\* are skipped.  quad_pos is the number of data characters read modulo 4; a
\* "=" ends the data when quad_pos >= 2 and it is the (4 - quad_pos)-th "="
\* since the last data character.  At the end of the input without such a
\* "=", quad_pos must be 0.  Three bytes are cut from every four data
\* characters, one or two from a padded quad.
a2b_base64(ascii_data) ==
    LET n == Len(ascii_data)
        is_data(i) == table_a2b_base64(ascii_data[i]) < 64
        quad_pos(i) == Cardinality({k \in 1..(i - 1) : is_data(k)}) % 4
        pads(i) == Cardinality({k \in 1..i :
                        /\ ascii_data[k] = "="
                        /\ \A m \in k..i : ~is_data(m)})
        done(stops) ==
            IF stops = {} THEN n + 1 ELSE CHOOSE i \in stops : \A k \in stops : i <= k
        bin_data(stops, sextets) ==
            LET count == Len(sextets)
                bin_len == (count \div 4) * 3 + (IF count % 4 = 0 THEN 0 ELSE (count % 4) - 1)
                byte(k) ==
                    LET q == ((k - 1) \div 3) * 4
                    IN  IF (k - 1) % 3 = 0 THEN sextets[q + 1] * 4 + (sextets[q + 2] \div 16)
                        ELSE IF (k - 1) % 3 = 1
                        THEN (sextets[q + 2] % 16) * 16 + (sextets[q + 3] \div 4)
                        ELSE (sextets[q + 3] % 4) * 64 + sextets[q + 4]
            IN  IF stops = {} /\ count % 4 # 0
                THEN Raise("binascii_Error")
                ELSE Return([k \in 1..bin_len |-> byte(k)])
        quads(stops) ==
            bin_data(stops,
                     SelectSeq([i \in 1..(done(stops) - 1) |->
                                   table_a2b_base64(ascii_data[i])],
                               LAMBDA v : v < 64))
    IN  quads({i \in 1..n : /\ ascii_data[i] = "="
                            /\ quad_pos(i) >= 2
                            /\ quad_pos(i) + pads(i) >= 4})

\* base64.urlsafe_b64decode of a str
urlsafe_b64decode(s) ==
    IF encode_ascii(s).raised # ""
    THEN Raise("ValueError")
    ELSE a2b_base64(s)

----------------------------------------------------------------------------
(* json.dumps and json.loads, for the documents of the model: objects,     *)
(* arrays, strings without control characters and with the escapes of the  *)
(* quote and the backslash only, numbers, and the literals.  A value is a  *)
(* record tagged with its Python type.                                     *)

PyInt(n) == [t |-> "int", v |-> n]
PyStr(text) == [t |-> "str", v |-> text]
PyBool(b) == [t |-> "bool", v |-> b]
PyNone == [t |-> "NoneType", v |-> NULL]
PyList(items) == [t |-> "list", v |-> items]
\* A dict is the sequence of its items in insertion order.
PyDict(items) == [t |-> "dict", v |-> items]
\* A float: finite with its integral part, or inf, -inf, nan.
PyFloat(kind, trunc) == [t |-> "float", v |-> [kind |-> kind, trunc |-> trunc]]

is_decimal(ch) == ch \in {"0", "1", "2", "3", "4", "5", "6", "7", "8", "9"}

RECURSIVE Pow10(_)
Pow10(e) == IF e = 0 THEN 1 ELSE 10 * Pow10(e - 1)

\* The position after the run of decimal digits that starts at i.
RECURSIVE DigitsEnd(_, _)
DigitsEnd(s, i) == IF i <= Len(s) /\ is_decimal(s[i]) THEN DigitsEnd(s, i + 1) ELSE i

\* The number written by the decimal digits s[i..j-1].
RECURSIVE ParseNat(_, _, _)
ParseNat(s, i, j) ==
    IF j <= i THEN 0 ELSE ParseNat(s, i, j - 1) * 10 + (ord(s[j - 1]) - 48)

\* The decimal digits of n >= 0, at least width of them.
RECURSIVE Decimal(_, _)
Decimal(n, width) ==
    IF n < 10 /\ width <= 1 THEN <<chr(48 + n)>>
    ELSE Append(Decimal(n \div 10, width - 1), chr(48 + (n % 10)))

\* str(n) of an int, as characters.
int_repr(n) == IF n < 0 THEN <<"-">> \o Decimal(0 - n, 1) ELSE Decimal(n, 1)

\* The characters of a str between the quotes of a JSON document.
RECURSIVE py_encode_basestring(_)
py_encode_basestring(text) ==
    IF text = <<>> THEN <<>>
    ELSE (IF text[1] \in {"\"", "\\"} THEN <<"\\", text[1]>> ELSE <<text[1]>>)
         \o py_encode_basestring(SubSeq(text, 2, Len(text)))

\* json.dumps(value, separators=(",", ":"), ensure_ascii=True) of a dict of
\* str and int values, a str or an int.
RECURSIVE json_dumps(_)
json_dumps(value) ==
    CASE value.t = "int" -> int_repr(value.v)
      [] value.t = "str" -> <<"\"">> \o py_encode_basestring(value.v) \o <<"\"">>
      [] value.t = "dict" ->
            LET RECURSIVE items(_)
                items(k) ==
                    IF k > Len(value.v) THEN <<>>
                    ELSE (IF k > 1 THEN <<",">> ELSE <<>>)
                         \o json_dumps(PyStr(value.v[k].key)) \o <<":">>
                         \o json_dumps(value.v[k].value) \o items(k + 1)
            IN  <<"{">> \o items(1) \o <<"}">>

\* The result of a scan: an exception, or a value and the position after it.
Scanned(value, end) == [raised |-> "", value |-> value, end |-> end]
ScanError(exception) == [raised |-> exception, value |-> NULL, end |-> 0]

RECURSIVE skip_whitespace(_, _)
skip_whitespace(s, i) == IF i <= Len(s) /\ s[i] = " " THEN skip_whitespace(s, i + 1) ELSE i

StartsWith(s, i, word) ==
    /\ i + Len(word) - 1 <= Len(s)
    /\ \A k \in 1..Len(word) : s[i + k - 1] = word[k]

\* json.decoder.scanstring from the character after the opening quote.
RECURSIVE scanstring(_, _, _)
scanstring(s, i, chunks) ==
    IF i > Len(s) THEN ScanError("JSONDecodeError")
    ELSE IF s[i] = "\"" THEN Scanned(PyStr(chunks), i + 1)
    ELSE IF s[i] = "ctl" THEN ScanError("JSONDecodeError")
    ELSE IF s[i] = "\\"
    THEN IF i + 1 <= Len(s) /\ s[i + 1] \in {"\"", "\\", "/"}
         THEN scanstring(s, i + 2, Append(chunks, s[i + 1]))
         ELSE ScanError("JSONDecodeError")
    ELSE scanstring(s, i + 1, Append(chunks, s[i]))

\* The number matched by NUMBER_RE at i: (-?(?:0|[1-9]\d*))(\.\d+)?([eE][-+]?\d+)?
\* An int without fraction and exponent, else a float, which is inf when its
\* decimal exponent is beyond the range of a double.
match_number(s, i) ==
    LET neg == i <= Len(s) /\ s[i] = "-"
        sign == IF neg THEN 0 - 1 ELSE 1
        hasfrac(i1) == i1 + 1 <= Len(s) /\ s[i1] = "." /\ is_decimal(s[i1 + 1])
        esign(i2) == i2 + 1 <= Len(s) /\ s[i2] \in {"e", "E"} /\ s[i2 + 1] \in {"+", "-"}
        hasexp(i2, e0) ==
            i2 <= Len(s) /\ s[i2] \in {"e", "E"} /\ e0 <= Len(s) /\ is_decimal(s[e0])
        number(i0, i1, i2, e0, i3, integer, exp) ==
            LET expneg == hasexp(i2, e0) /\ esign(i2) /\ s[i2 + 1] = "-"
                frac == IF hasfrac(i1) /\ ~expneg /\ exp > 0
                        THEN ParseNat(s, i1 + 1, IF i1 + 1 + exp <= i2 THEN i1 + 1 + exp ELSE i2)
                             * Pow10(IF i1 + 1 + exp <= i2 THEN 0 ELSE i1 + 1 + exp - i2)
                        ELSE 0
                nonzero == integer # 0 \/ (hasfrac(i1) /\ ParseNat(s, i1 + 1, i2) # 0)
            IN  IF i1 = i0 THEN ScanError("StopIteration")
                ELSE IF ~hasfrac(i1) /\ ~hasexp(i2, e0) THEN Scanned(PyInt(sign * integer), i1)
                ELSE IF /\ ~expneg
                        /\ nonzero
                        /\ exp + (IF integer = 0 THEN 0 ELSE i1 - i0) > 309
                THEN Scanned(PyFloat(IF neg THEN "-inf" ELSE "inf", NULL), i3)
                ELSE IF expneg
                THEN Scanned(PyFloat("finite", sign * (integer \div Pow10(exp))), i3)
                ELSE Scanned(PyFloat("finite", sign * (integer * Pow10(exp) + frac)), i3)
        exponent(i0, i1, i2, e0, i3) ==
            number(i0, i1, i2, e0, i3, ParseNat(s, i0, i1),
                   IF hasexp(i2, e0) THEN ParseNat(s, e0, i3) ELSE 0)
        fraction(i0, i1, i2, e0) ==
            exponent(i0, i1, i2, e0, IF hasexp(i2, e0) THEN DigitsEnd(s, e0) ELSE i2)
        digits(i0, i1, i2) == fraction(i0, i1, i2, IF esign(i2) THEN i2 + 2 ELSE i2 + 1)
        leading(i0, i1) == digits(i0, i1, IF hasfrac(i1) THEN DigitsEnd(s, i1 + 1) ELSE i1)
        start(i0) ==
            leading(i0, IF i0 <= Len(s) /\ s[i0] = "0" THEN i0 + 1 ELSE DigitsEnd(s, i0))
    IN  start(IF neg THEN i + 1 ELSE i)

\* The deepest nesting json.loads parses before the interpreter raises
\* RecursionError.
RecursionLimit == 3

\* scan_once of json.scanner at position i, with depth open containers.
RECURSIVE scan_once(_, _, _)
RECURSIVE JSONObject(_, _, _, _)
RECURSIVE JSONArray(_, _, _, _)

scan_once(s, i, depth) ==
    IF i > Len(s) THEN ScanError("StopIteration")
    ELSE IF s[i] = "\"" THEN scanstring(s, i + 1, <<>>)
    ELSE IF s[i] \in {"{", "["}
    THEN IF depth >= RecursionLimit THEN ScanError("RecursionError")
         ELSE LET j == skip_whitespace(s, i + 1)
                  close == IF s[i] = "{" THEN "}" ELSE "]"
              IN  IF j <= Len(s) /\ s[j] = close
                  THEN Scanned(IF s[i] = "{" THEN PyDict(<<>>) ELSE PyList(<<>>), j + 1)
                  ELSE IF s[i] = "{" THEN JSONObject(s, j, depth + 1, <<>>)
                  ELSE JSONArray(s, j, depth + 1, <<>>)
    ELSE IF StartsWith(s, i, <<"n", "u", "l", "l">>) THEN Scanned(PyNone, i + 4)
    ELSE IF StartsWith(s, i, <<"t", "r", "u", "e">>) THEN Scanned(PyBool(TRUE), i + 4)
    ELSE IF StartsWith(s, i, <<"f", "a", "l", "s", "e">>) THEN Scanned(PyBool(FALSE), i + 5)
    ELSE IF match_number(s, i).raised = "" THEN match_number(s, i)
    ELSE IF StartsWith(s, i, <<"N", "a", "N">>) THEN Scanned(PyFloat("nan", NULL), i + 3)
    ELSE IF StartsWith(s, i, <<"I", "n", "f", "i", "n", "i", "t", "y">>)
    THEN Scanned(PyFloat("inf", NULL), i + 8)
    ELSE IF StartsWith(s, i, <<"-", "I", "n", "f", "i", "n", "i", "t", "y">>)
    THEN Scanned(PyFloat("-inf", NULL), i + 9)
    ELSE ScanError("StopIteration")

\* The members of an object from the quote of the next key on.
JSONObject(s, i, depth, pairs) ==
    IF i > Len(s) \/ s[i] # "\"" THEN ScanError("JSONDecodeError")
    ELSE LET pair(key, colon, member, after) ==
                 LET items == Append(pairs, [key |-> key.value.v, value |-> member.value])
                 IN  IF key.raised # "" THEN key
                     ELSE IF colon > Len(s) \/ s[colon] # ":"
                     THEN ScanError("JSONDecodeError")
                     ELSE IF member.raised = "StopIteration" THEN ScanError("JSONDecodeError")
                     ELSE IF member.raised # "" THEN member
                     ELSE IF after > Len(s) THEN ScanError("JSONDecodeError")
                     ELSE IF s[after] = "}" THEN Scanned(PyDict(items), after + 1)
                     ELSE IF s[after] = ","
                     THEN JSONObject(s, skip_whitespace(s, after + 1), depth, items)
                     ELSE ScanError("JSONDecodeError")
             value_of(key, colon, member) ==
                 pair(key, colon, member, skip_whitespace(s, member.end))
             name_of(key, colon) ==
                 value_of(key, colon, scan_once(s, skip_whitespace(s, colon + 1), depth))
             key_of(key) == name_of(key, skip_whitespace(s, key.end))
         IN  key_of(scanstring(s, i + 1, <<>>))

\* The elements of an array from its next element on.
JSONArray(s, i, depth, values) ==
    LET item(element, after) ==
            LET items == Append(values, element.value)
            IN  IF element.raised = "StopIteration" THEN ScanError("JSONDecodeError")
                ELSE IF element.raised # "" THEN element
                ELSE IF after > Len(s) THEN ScanError("JSONDecodeError")
                ELSE IF s[after] = "]" THEN Scanned(PyList(items), after + 1)
                ELSE IF s[after] = ","
                THEN JSONArray(s, skip_whitespace(s, after + 1), depth, items)
                ELSE ScanError("JSONDecodeError")
        element_of(element) == item(element, skip_whitespace(s, element.end))
    IN  element_of(scan_once(s, i, depth))

\* json.loads(text): one value, surrounded by whitespace only.
json_loads(text) ==
    LET decode(obj) ==
            IF obj.raised = "StopIteration" THEN Raise("JSONDecodeError")
            ELSE IF obj.raised # "" THEN Raise(obj.raised)
            ELSE IF skip_whitespace(text, obj.end) <= Len(text) THEN Raise("JSONDecodeError")
            ELSE Return(obj.value)
    IN  decode(scan_once(text, skip_whitespace(text, 1), 0))

----------------------------------------------------------------------------
(* datetime: isoformat, fromisoformat and comparison.  utcoffset is NULL   *)
(* for a naive datetime and the offset in seconds for an aware one.        *)

datetime(year, month, day, hour, minute, second, microsecond, utcoffset) ==
    [year |-> year, month |-> month, day |-> day, hour |-> hour, minute |-> minute,
     second |-> second, microsecond |-> microsecond, utcoffset |-> utcoffset]

is_leap(year) == year % 4 = 0 /\ (year % 100 # 0 \/ year % 400 = 0)

days_in_month(year, month) ==
    IF month = 2 THEN (IF is_leap(year) THEN 29 ELSE 28)
    ELSE IF month \in {4, 6, 9, 11} THEN 30 ELSE 31

\* The checks of the datetime and timezone constructors.
valid_fields(dt) ==
    /\ dt.year >= 1 /\ dt.year <= 9999
    /\ dt.month >= 1 /\ dt.month <= 12
    /\ dt.day >= 1 /\ dt.day <= days_in_month(dt.year, dt.month)
    /\ dt.hour <= 23 /\ dt.minute <= 59 /\ dt.second <= 59
    /\ dt.utcoffset # NULL => (dt.utcoffset > 0 - 86400 /\ dt.utcoffset < 86400)

\* Variant: the microseconds are never written (timespec="seconds").
isoformat_seconds(dt) ==
    Decimal(dt.year, 4) \o <<"-">> \o Decimal(dt.month, 2) \o <<"-">> \o Decimal(dt.day, 2)
    \o <<"T">> \o Decimal(dt.hour, 2) \o <<":">> \o Decimal(dt.minute, 2)
    \o <<":">> \o Decimal(dt.second, 2)
    \o (IF dt.utcoffset = NULL THEN <<>>
        ELSE LET off == IF dt.utcoffset < 0 THEN 0 - dt.utcoffset ELSE dt.utcoffset
             IN  <<IF dt.utcoffset < 0 THEN "-" ELSE "+">>
                 \o Decimal(off \div 3600, 2) \o <<":">> \o Decimal((off % 3600) \div 60, 2)
                 \o (IF off % 60 # 0 THEN <<":">> \o Decimal(off % 60, 2) ELSE <<>>))

\* datetime.isoformat(): YYYY-MM-DDTHH:MM:SS[.ffffff][+HH:MM[:SS]]
isoformat(dt) ==
    Decimal(dt.year, 4) \o <<"-">> \o Decimal(dt.month, 2) \o <<"-">> \o Decimal(dt.day, 2)
    \o <<"T">> \o Decimal(dt.hour, 2) \o <<":">> \o Decimal(dt.minute, 2)
    \o <<":">> \o Decimal(dt.second, 2)
    \o (IF dt.microsecond # 0 THEN <<".">> \o Decimal(dt.microsecond, 6) ELSE <<>>)
    \o (IF dt.utcoffset = NULL THEN <<>>
        ELSE LET off == IF dt.utcoffset < 0 THEN 0 - dt.utcoffset ELSE dt.utcoffset
             IN  <<IF dt.utcoffset < 0 THEN "-" ELSE "+">>
                 \o Decimal(off \div 3600, 2) \o <<":">> \o Decimal((off % 3600) \div 60, 2)
                 \o (IF off % 60 # 0 THEN <<":">> \o Decimal(off % 60, 2) ELSE <<>>))

\* HH[:MM[:SS[.fff[fff]]]] of a time or of an offset.
parse_hh_mm_ss_ff(tstr) ==
    LET n == Len(tstr)
        two(i) == is_decimal(tstr[i]) /\ is_decimal(tstr[i + 1])
        shape == /\ n \in {2, 5, 8, 12, 15}
                 /\ two(1)
                 /\ n >= 5 => (tstr[3] = ":" /\ two(4))
                 /\ n >= 8 => (tstr[6] = ":" /\ two(7))
                 /\ n >= 12 => (tstr[9] = "." /\ DigitsEnd(tstr, 10) = n + 1)
    IN  IF ~shape THEN Raise("ValueError")
        ELSE Return([hour |-> ParseNat(tstr, 1, 3),
                     minute |-> IF n >= 5 THEN ParseNat(tstr, 4, 6) ELSE 0,
                     second |-> IF n >= 8 THEN ParseNat(tstr, 7, 9) ELSE 0,
                     microsecond |-> IF n = 12 THEN ParseNat(tstr, 10, 13) * 1000
                                     ELSE IF n = 15 THEN ParseNat(tstr, 10, 16)
                                     ELSE 0])

\* The position of the first "+" or "-" of tstr, 0 when it has none.
tz_pos(tstr) ==
    LET signs == {i \in 1..Len(tstr) : tstr[i] \in {"+", "-"}}
    IN  IF signs = {} THEN 0 ELSE CHOOSE i \in signs : \A j \in signs : i <= j

\* datetime.fromisoformat(date_string): the date, any one separator, the
\* time, and an offset of whole seconds.
fromisoformat(date_string) ==
    IF date_string.t # "str" THEN Raise("TypeError")
    ELSE LET s == date_string.v
             n == Len(s)
             dateok == /\ n >= 10
                       /\ DigitsEnd(s, 1) = 5 /\ s[5] = "-"
                       /\ DigitsEnd(s, 6) = 8 /\ s[8] = "-"
                       /\ DigitsEnd(s, 9) >= 11
             combine(tstr, pos, tzstr, time, tz) ==
                 LET offset == tz.value.hour * 3600 + tz.value.minute * 60 + tz.value.second
                     dt == datetime(ParseNat(s, 1, 5), ParseNat(s, 6, 8), ParseNat(s, 9, 11),
                                    IF n = 10 THEN 0 ELSE time.value.hour,
                                    IF n = 10 THEN 0 ELSE time.value.minute,
                                    IF n = 10 THEN 0 ELSE time.value.second,
                                    IF n = 10 THEN 0 ELSE time.value.microsecond,
                                    IF n = 10 \/ pos = 0 THEN NULL
                                    ELSE IF tstr[pos] = "-" THEN 0 - offset ELSE offset)
                 IN  IF ~dateok THEN Raise("ValueError")
                     ELSE IF n = 10
                     THEN (IF valid_fields(dt) THEN Return(dt) ELSE Raise("ValueError"))
                     ELSE IF time.raised # "" THEN Raise("ValueError")
                     ELSE IF pos # 0 /\ (Len(tzstr) \notin {5, 8} \/ tz.raised # "")
                     THEN Raise("ValueError")
                     ELSE IF ~valid_fields(dt) THEN Raise("ValueError")
                     ELSE Return(dt)
             parts(tstr, pos, timestr, tzstr) ==
                 combine(tstr, pos, tzstr, parse_hh_mm_ss_ff(timestr),
                         parse_hh_mm_ss_ff(tzstr))
             split(tstr, pos) ==
                 parts(tstr, pos,
                       IF pos = 0 THEN tstr ELSE SubSeq(tstr, 1, pos - 1),
                       IF pos = 0 THEN <<>> ELSE SubSeq(tstr, pos + 1, Len(tstr)))
             time_of(tstr) == split(tstr, tz_pos(tstr))
         IN  time_of(SubSeq(s, 12, n))

\* The days from 0001-01-01 to the date.
toordinal(dt) ==
    LET y == dt.year - 1
        RECURSIVE before(_)
        before(m) == IF m = 1 THEN 0 ELSE before(m - 1) + days_in_month(dt.year, m - 1)
    IN  y * 365 + (y \div 4) - (y \div 100) + (y \div 400) + before(dt.month) + dt.day

\* a == b of two datetimes: naive ones by their fields, aware ones by their
\* instant; a naive and an aware one are never equal.
datetime_eq(a, b) ==
    IF a.utcoffset = NULL \/ b.utcoffset = NULL
    THEN a = b
    ELSE LET seconds(dt) == dt.hour * 3600 + dt.minute * 60 + dt.second - dt.utcoffset
             days(dt) == toordinal(dt) + ((seconds(dt) + 86400) \div 86400) - 1
         IN  /\ days(a) = days(b)
             /\ (seconds(a) + 86400) % 86400 = (seconds(b) + 86400) % 86400
             /\ a.microsecond = b.microsecond

----------------------------------------------------------------------------
(* utils/pagination.py *)

encode_cursor(created_at, item_id) ==
    LET payload == PyDict(<<[key |-> Chars("created_at"),
                            value |-> PyStr(isoformat(created_at))],
                           [key |-> Chars("id"), value |-> PyInt(item_id)]>>)
        raw == encode_ascii(json_dumps(payload)).value
    IN  rstrip_pad(urlsafe_b64encode(raw))

\* payload[key]
getitem(payload, key) ==
    IF payload.t = "dict"
    THEN LET hits == {k \in 1..Len(payload.v) : payload.v[k].key = key}
         IN  IF hits = {} THEN Raise("KeyError")
             ELSE Return(payload.v[CHOOSE k \in hits : \A j \in hits : j <= k].value)
    ELSE Raise("TypeError")

\* int(x)
py_int(x) ==
    CASE x.t = "int" -> Return(x.v)
      [] x.t = "bool" -> Return(IF x.v THEN 1 ELSE 0)
      [] x.t = "float" ->
            IF x.v.kind = "finite" THEN Return(x.v.trunc)
            ELSE IF x.v.kind = "nan" THEN Raise("ValueError")
            ELSE Raise("OverflowError")
      [] x.t = "str" ->
            LET i == skip_whitespace(x.v, 1)
                j == IF i <= Len(x.v) /\ x.v[i] \in {"+", "-"} THEN i + 1 ELSE i
                k == DigitsEnd(x.v, j)
            IN  IF k > j /\ skip_whitespace(x.v, k) > Len(x.v)
                THEN Return((IF x.v[i] = "-" THEN 0 - 1 ELSE 1) * ParseNat(x.v, j, k))
                ELSE Raise("ValueError")
      [] x.t \in {"NoneType", "list", "dict"} -> Raise("TypeError")

\* except (ValueError, TypeError, KeyError, json.JSONDecodeError)
Caught == {"ValueError", "TypeError", "KeyError", "JSONDecodeError"}

\* None, where a pair <<created_at, item_id>> is expected.
None == <<>>

\* The result of the try block for an exception raised in it: None when an
\* except clause catches it, else the exception leaves decode_cursor.
except(raised) == IF Bases[raised] \cap Caught # {} THEN Return(None) ELSE Raise(raised)

\* decode_cursor(cursor): a pair <<created_at, item_id>>, or None.
decode_cursor(text) ==
    IF text = <<>> THEN Return(None)
    ELSE LET with_item_id(created_at, item_id) ==
                 IF item_id.raised # "" THEN except(item_id.raised)
                 ELSE Return(<<created_at.value, item_id.value>>)
             with_id_field(created_at, id_field) ==
                 IF id_field.raised # "" THEN except(id_field.raised)
                 ELSE with_item_id(created_at, py_int(id_field.value))
             with_created_at(payload, created_at) ==
                 IF created_at.raised # "" THEN except(created_at.raised)
                 ELSE with_id_field(created_at, getitem(payload.value, Chars("id")))
             with_created_field(payload, created_field) ==
                 IF created_field.raised # "" THEN except(created_field.raised)
                 ELSE with_created_at(payload, fromisoformat(created_field.value))
             with_payload(payload) ==
                 IF payload.raised # "" THEN except(payload.raised)
                 ELSE with_created_field(payload, getitem(payload.value, Chars("created_at")))
             with_raw(raw) ==
                 IF raw.raised # "" THEN except(raw.raised)
                 ELSE with_payload(json_loads(raw.value))
             with_data(data) ==
                 IF data.raised # "" THEN except(data.raised)
                 ELSE with_raw(decode_utf8(data.value))
         IN  with_data(urlsafe_b64decode(_pad_base64(text)))

----------------------------------------------------------------------------
(* Palettes (models.palette.Palette rows, utils/palette_service.py).  A    *)
(* name and a colour are sequences of characters.                          *)

MaxPalettes == 3

\* gettext of the default base name and of the second default name, written
\* in Latin letters.
default_base_name == <<"M", "o", "y", "a", " ", "p", "a", "l", "i", "t", "r", "a">>
untitled == <<"B", "e", "z", " ", "n", "a", "z", "v", "a", "n", "i", "y", "a">>
Brand == <<"B", "r", "a", "n", "d">>
Sunset == <<"S", "u", "n", "s", "e", "t">>

\* _palette_defaults()[1]
default_names ==
    {default_base_name, untitled,
     <<"U", "n", "t", "i", "t", "l", "e", "d", " ", "P", "a", "l", "e", "t", "t", "e">>,
     <<"R", "a", "n", "d", "o", "m", " ", "P", "a", "l", "e", "t", "t", "e">>,
     <<>>}

\* A key that the JSON payload does not have.
Absent == [t |-> "absent", v |-> NULL]

\* payload.get(key): None for a missing key.
payload_get(value) == IF value.t = "absent" THEN PyNone ELSE value

\* payload.get(key, default)
payload_get_default(value, default) == IF value.t = "absent" THEN default ELSE value

\* str.strip()
RECURSIVE strip(_)
strip(text) ==
    IF text = <<>> THEN <<>>
    ELSE IF text[1] = " " THEN strip(SubSeq(text, 2, Len(text)))
    ELSE IF text[Len(text)] = " " THEN strip(SubSeq(text, 1, Len(text) - 1))
    ELSE text

\* str.upper() of the characters of a colour.
upper(text) ==
    LET table == [a |-> "A", b |-> "B", c |-> "C", d |-> "D", e |-> "E", f |-> "F"]
    IN  [i \in 1..Len(text) |-> IF text[i] \in DOMAIN table THEN table[text[i]] ELSE text[i]]

\* re.compile(r"^#[0-9a-fA-F]{6}$").match(color)
hex_pattern(color) ==
    /\ Len(color) = 7
    /\ color[1] = "#"
    /\ \A i \in 2..7 : color[i] \in
          {"0", "1", "2", "3", "4", "5", "6", "7", "8", "9",
           "a", "b", "c", "d", "e", "f", "A", "B", "C", "D", "E", "F"}

\* Config.MIN_COLOR_COUNT and Config.MAX_COLOR_COUNT.  The palettes of three
\* colours that the tests save are accepted; no other count is submitted here
\* but zero, which every configuration refuses.
MIN_COLOR_COUNT == 3
MAX_COLOR_COUNT == 3

\* The normalized list, None when the value is not a list of hex colours of
\* an accepted length.
normalize_palette_colors(colors, min_count, max_count) ==
    IF colors.t # "list" THEN None
    ELSE IF ~(min_count <= Len(colors.v) /\ Len(colors.v) <= max_count) THEN None
    ELSE IF \E i \in 1..Len(colors.v) :
                \/ colors.v[i].t # "str"
                \/ ~hex_pattern(strip(colors.v[i].v))
    THEN None
    ELSE [i \in 1..Len(colors.v) |-> upper(strip(colors.v[i].v))]

\* A row that db.session.delete removed; ids are not given out again.
NoRow == [id |-> 0, user_id |-> 0, name |-> <<>>, colors |-> <<>>, created_at |-> NULL]

\* Palette(name=..., colors=..., user_id=...), before the INSERT.
Palette(name, colors, user_id) ==
    [id |-> 0, user_id |-> user_id, name |-> name, colors |-> colors, created_at |-> NULL]

\* The ids of the rows of the table.
Rows(store) == {i \in 1..Len(store) : store[i].id # 0}

\* Palette.query.filter_by(user_id=user_id, name=name).first() is not None
name_exists(store, user_id, name) ==
    \E i \in Rows(store) : store[i].user_id = user_id /\ store[i].name = name

\* The first f"{default_base_name} {counter}" that the user does not have.
RECURSIVE first_free(_, _, _)
first_free(store, user_id, counter) ==
    LET candidate == default_base_name \o <<" ">> \o int_repr(counter)
    IN  IF ~name_exists(store, user_id, candidate) THEN candidate
        ELSE first_free(store, user_id, counter + 1)

\* resolve_palette_name: the name, or the PaletteValidationError raised.
resolve_palette_name(store, user_id, requested_name) ==
    LET normalized == IF requested_name.t = "NoneType" THEN <<>> ELSE strip(requested_name.v)
    IN  IF requested_name.t # "NoneType" /\ normalized = <<>>
        THEN Raise("PaletteValidationError")
        ELSE IF normalized = <<>> \/ normalized \in default_names
        THEN IF ~name_exists(store, user_id, default_base_name)
             THEN Return(default_base_name)
             ELSE Return(first_free(store, user_id, 1))
        ELSE Return(normalized)

\* A table without the constraint.
IntegrityError_never(store) == FALSE

\* The uq_palette_user_name constraint: the statement would leave two rows
\* of one user with one name.
IntegrityError(store) ==
    \E i, j \in Rows(store) :
        i # j /\ store[i].user_id = store[j].user_id /\ store[i].name = store[j].name

\* The value of the created_at column at minute t of the clock.
created_at_default(t) == datetime(2026, 2, 21, 10, t, 0, 0, NULL)

\* a < b of two naive datetimes
datetime_lt(a, b) ==
    LET fields == <<"year", "month", "day", "hour", "minute", "second", "microsecond">>
    IN  \E i \in 1..Len(fields) :
            /\ a[fields[i]] < b[fields[i]]
            /\ \A k \in 1..(i - 1) : a[fields[k]] = b[fields[k]]

serialize_palette(palette) ==
    [kind |-> "palette", id |-> palette.id, name |-> palette.name,
     colors |-> palette.colors, created_at |-> isoformat(palette.created_at)]

_palette_not_found == api_error("NOT_FOUND", "palette not found", 404)

----------------------------------------------------------------------------
(* GET /api/v1/palettes *)

\* (created_at, id) of row i is below (created_at, id) of row k.
key_lt(store, i, k) ==
    \/ datetime_lt(store[i].created_at, store[k].created_at)
    \/ store[i].created_at = store[k].created_at /\ i < k

\* .order_by(Palette.created_at.desc(), Palette.id.desc()) of the rows ids.
RECURSIVE order_by_desc(_, _)
order_by_desc(store, ids) ==
    IF ids = {} THEN <<>>
    ELSE LET from(first) == <<first>> \o order_by_desc(store, ids \ {first})
         IN  from(CHOOSE i \in ids : \A k \in ids \ {i} : key_lt(store, k, i))

\* The keyset predicate without the tie-break on the id.
below_cursor_by_time(row, cursor_key) ==
    datetime_lt(row.created_at, cursor_key[1])

\* or_(created_at < cursor_created_at,
\*     and_(created_at == cursor_created_at, id < cursor_id))
below_cursor(row, cursor_key) ==
    \/ datetime_lt(row.created_at, cursor_key[1])
    \/ row.created_at = cursor_key[1] /\ row.id < cursor_key[2]

\* Variant: a request with a cursor is filtered by the cursor only.
filter_query_cursor_only(store, user_id, cursor_key) ==
    {i \in Rows(store) :
        IF cursor_key = None
        THEN store[i].user_id = user_id
        ELSE below_cursor(store[i], cursor_key)}

\* The rows of the query, filtered by owner and by the cursor.
filter_query(store, user_id, cursor_key) ==
    {i \in Rows(store) :
        /\ store[i].user_id = user_id
        /\ cursor_key # None => below_cursor(store[i], cursor_key)}

\* More rows than the page holds, once the query asks for one more.
has_next_at_limit(found, limit) == Len(found) >= limit

\* has_next = len(items) > limit, of the limit + 1 rows asked for
has_next(found, limit) == Len(found) > limit

\* The response of list_palettes to the arguments limit (NULL when it is
\* missing) and cursor (empty when it is missing).
list_response(store, user_id, raw_limit, raw_cursor) ==
    LET requested == IF raw_limit = NULL THEN 20 ELSE raw_limit
        limit == Max(1, IF requested <= 50 THEN requested ELSE 50)
        page(found, items) ==
            LET last_item == store[items[Len(items)]]
                next_cursor == IF has_next(found, limit) /\ items # <<>>
                               THEN encode_cursor(last_item.created_at, last_item.id)
                               ELSE None
            IN  api_success([kind |-> "palettes",
                             items |-> [k \in 1..Len(items) |->
                                           serialize_palette(store[items[k]])],
                             limit |-> limit,
                             next_cursor |-> next_cursor])
        fetched(found) ==
            page(found, IF has_next(found, limit) THEN SubSeq(found, 1, limit) ELSE found)
        query(all) ==
            fetched(SubSeq(all, 1, IF Len(all) <= limit THEN Len(all) ELSE limit + 1))
        handle(decoded) ==
            IF decoded.raised # "" THEN InternalServerError
            ELSE IF raw_cursor # <<>> /\ decoded.value = None
            THEN api_error("VALIDATION_ERROR", "invalid cursor", 400)
            ELSE query(order_by_desc(store, filter_query(store, user_id, decoded.value)))
    IN  handle(decode_cursor(raw_cursor))

\* The requests of the paging client: the first page of a session, then the
\* page after the last one, with the next_cursor of the last one.
session_requests(users, limits) ==
    IF paging.stage = "none"
    THEN {[op |-> "list_palettes", session |-> TRUE, user_id |-> u, limit |-> l,
           cursor |-> <<>>] : u \in users, l \in limits}
    ELSE IF paging.stage = "open"
    THEN {[op |-> "list_palettes", session |-> TRUE, user_id |-> paging.user_id,
           limit |-> paging.limit, cursor |-> paging.next_cursor]}
    ELSE {}

\* The requests of other clients.
other_requests(users, limits, cursors) ==
    {[op |-> "list_palettes", session |-> FALSE, user_id |-> u, limit |-> l,
      cursor |-> c] : u \in users, l \in limits, c \in cursors}

\* What the paging client keeps of a page: the ids of its items and the
\* next_cursor; with the first page, the owner's rows at that moment.
turn_page(req, resp) ==
    LET ids == [k \in 1..Len(resp.data.items) |-> resp.data.items[k].id]
        opened == IF paging.stage = "none"
                  THEN [stage |-> "open", user_id |-> req.user_id, limit |-> req.limit,
                        started |-> {i \in Rows(palettes) : palettes[i].user_id = req.user_id},
                        pages |-> <<>>, next_cursor |-> <<>>]
                  ELSE paging
    IN  [opened EXCEPT !.pages = Append(@, ids),
                       !.next_cursor = resp.data.next_cursor,
                       !.stage = IF resp.data.next_cursor = None THEN "done" ELSE "open"]

\* The handler: one SELECT, nothing written.
list_palettes(p, users, limits, cursors) ==
    /\ pc[p] = "idle"
    /\ \E req \in session_requests(users, limits) \cup other_requests(users, limits, cursors) :
        \E resp \in {list_response(palettes, req.user_id, req.limit, req.cursor)} :
            /\ Reply(req, resp)
            /\ paging' = IF req.session /\ resp.status = 200
                         THEN turn_page(req, resp) ELSE paging
    /\ UNCHANGED <<pc, sess, palettes, cursor>>

----------------------------------------------------------------------------
(* POST /api/v1/palettes and POST /api/palettes/save.  A handler runs up   *)
(* to db.session.commit(), or to its response when it commits nothing; the *)
(* commit, with the reload of the row for the response, is the next step.  *)

\* Requests that are about to INSERT a row.
Inserting == {q \in Procs : pc[q] \in {"create_palette_commit", "save_palette_commit"}}

\* routes/api.py: jsonify({"success": False, "error": message}), status
_api_error(message, status) == api_error("", message, status)

\* routes/api.py: jsonify({"success": True, ...})
web_success(data) == api_success(data)

NameConflict == "palette name already used"
BadColors == "palette needs valid HEX colors"

create_palette(p, users, payloads) ==
    /\ pc[p] = "idle"
    /\ Len(palettes) + Cardinality(Inserting) < MaxPalettes
    /\ \E user_id \in users, payload \in payloads :
        LET req == [op |-> "create_palette", user_id |-> user_id, payload |-> payload]
            colors == normalize_palette_colors(
                          payload_get_default(payload.colors, PyList(<<>>)),
                          MIN_COLOR_COUNT, MAX_COLOR_COUNT)
            palette_name == resolve_palette_name(palettes, user_id, payload_get(payload.name))
        IN  IF colors = <<>>
            THEN /\ Reply(req, api_error("VALIDATION_ERROR", BadColors, 400))
                 /\ UNCHANGED <<pc, sess>>
            ELSE IF palette_name.raised # ""
            THEN /\ Reply(req, api_error("VALIDATION_ERROR", "palette name is blank", 400))
                 /\ UNCHANGED <<pc, sess>>
            ELSE /\ sess' = [sess EXCEPT ![p] =
                        [op |-> "create_palette", req |-> req,
                         palette |-> Palette(palette_name.value, colors, user_id)]]
                 /\ pc' = [pc EXCEPT ![p] = "create_palette_commit"]
                 /\ UNCHANGED last
    /\ UNCHANGED <<palettes, paging, cursor>>

\* The INSERT: the row gets the next id and the clock's created_at, unless
\* the unique constraint refuses it.
insert_commit(p, conflict) ==
    LET s == sess[p]
        created(new) ==
            IF s.op = "create_palette"
            THEN [api_success(serialize_palette(new)) EXCEPT !.status = 201]
            ELSE web_success([kind |-> "palette_id", palette_id |-> new.id])
        row == [s.palette EXCEPT !.id = Len(palettes) + 1,
                                 !.created_at = created_at_default(utcnow)]
        after == Append(palettes, row)
    IN  /\ IF IntegrityError(after)
           THEN /\ Reply(s.req, conflict)
                /\ UNCHANGED palettes
           ELSE /\ palettes' = after
                /\ Reply(s.req, created(row))
        /\ pc' = [pc EXCEPT ![p] = "idle"]
        /\ sess' = [sess EXCEPT ![p] = NoSession]
        /\ UNCHANGED <<paging, cursor>>

create_palette_commit(p) ==
    /\ pc[p] = "create_palette_commit"
    /\ insert_commit(p, api_error("PALETTE_NAME_CONFLICT", NameConflict, 409))

save_palette(p, users, payloads) ==
    /\ pc[p] = "idle"
    /\ Len(palettes) + Cardinality(Inserting) < MaxPalettes
    /\ \E user_id \in users, payload \in payloads, limited \in BOOLEAN :
        LET req == [op |-> "save_palette", user_id |-> user_id, payload |-> payload,
                    limited |-> limited]
            colors == normalize_palette_colors(
                          payload_get_default(payload.colors, PyList(<<>>)),
                          MIN_COLOR_COUNT, MAX_COLOR_COUNT)
            palette_name == resolve_palette_name(palettes, user_id, payload_get(payload.name))
        IN  IF limited
            THEN /\ Reply(req, _api_error("too many requests", 429))
                 /\ UNCHANGED <<pc, sess>>
            ELSE IF colors = <<>>
            THEN /\ Reply(req, _api_error(BadColors, 400))
                 /\ UNCHANGED <<pc, sess>>
            ELSE IF palette_name.raised # ""
            THEN /\ Reply(req, _api_error("palette name is blank", 400))
                 /\ UNCHANGED <<pc, sess>>
            ELSE IF name_exists(palettes, user_id, palette_name.value)
            THEN /\ Reply(req, _api_error(NameConflict, 400))
                 /\ UNCHANGED <<pc, sess>>
            ELSE /\ sess' = [sess EXCEPT ![p] =
                        [op |-> "save_palette", req |-> req,
                         palette |-> Palette(palette_name.value, colors, user_id)]]
                 /\ pc' = [pc EXCEPT ![p] = "save_palette_commit"]
                 /\ UNCHANGED last
    /\ UNCHANGED <<palettes, paging, cursor>>

save_palette_commit(p) ==
    /\ pc[p] = "save_palette_commit"
    /\ insert_commit(p, _api_error(NameConflict, 400))

----------------------------------------------------------------------------
(* PATCH /api/v1/palettes/<id> and POST /api/palettes/rename/<id> *)

Forbidden == "no rights to this palette"

\* An ownership test that lets everyone through.
not_owner_never(palette, user_id) == FALSE

\* palette.user_id != g.api_user.id
not_owner(palette, user_id) == palette.user_id # user_id

\* db.session.get(Palette, palette_id): the row, NoRow for None.
session_get(store, palette_id) ==
    IF palette_id \in Rows(store) THEN store[palette_id] ELSE NoRow

update_palette(p, users, ids, payloads) ==
    /\ pc[p] = "idle"
    /\ \E user_id \in users, palette_id \in ids, payload \in payloads :
        LET req == [op |-> "update_palette", user_id |-> user_id,
                    palette_id |-> palette_id, payload |-> payload]
            palette == session_get(palettes, palette_id)
            given == payload_get(payload.name)
            new_name == IF given.t = "NoneType" THEN <<>> ELSE strip(given.v)
            colors == normalize_palette_colors(
                          payload_get_default(payload.colors, PyList(<<>>)),
                          MIN_COLOR_COUNT, MAX_COLOR_COUNT)
            Refuse(resp) == Reply(req, resp) /\ UNCHANGED <<pc, sess>>
        IN  IF palette.id = 0 THEN Refuse(_palette_not_found)
            ELSE IF not_owner(palette, user_id)
            THEN Refuse(api_error("FORBIDDEN", Forbidden, 403))
            ELSE IF payload.name.t # "absent" /\ new_name = <<>>
            THEN Refuse(api_error("VALIDATION_ERROR", "palette name is blank", 400))
            ELSE IF payload.colors.t # "absent" /\ colors = <<>>
            THEN Refuse(api_error("VALIDATION_ERROR", BadColors, 400))
            ELSE IF payload.name.t = "absent" /\ payload.colors.t = "absent"
            THEN Refuse(api_error("VALIDATION_ERROR", "nothing to update", 400))
            ELSE /\ sess' = [sess EXCEPT ![p] =
                        [op |-> "update_palette", req |-> req, loaded |-> palette,
                         palette |-> [palette EXCEPT
                            !.name = IF payload.name.t = "absent" THEN @ ELSE new_name,
                            !.colors = IF payload.colors.t = "absent" THEN @ ELSE colors]]]
                 /\ pc' = [pc EXCEPT ![p] = "update_palette_commit"]
                 /\ UNCHANGED last
    /\ UNCHANGED <<palettes, paging, cursor>>

\* The flush writes the attributes that differ from the loaded ones.  An
\* UPDATE that matches no row raises StaleDataError, which is not an
\* IntegrityError; the response reads the row again.
update_commit(p, conflict, stale) ==
    LET s == sess[p]
        updated(row) ==
            IF s.op = "update_palette" THEN api_success(serialize_palette(row))
            ELSE web_success(NoData)
        id == s.loaded.id
        dirty == s.palette # s.loaded
        after == [palettes EXCEPT ![id] = [@ EXCEPT !.name = s.palette.name,
                                                    !.colors = s.palette.colors]]
    IN  /\ IF id \notin Rows(palettes)
           THEN /\ Reply(s.req, stale)
                /\ UNCHANGED palettes
           ELSE IF ~dirty
           THEN /\ Reply(s.req, updated(palettes[id]))
                /\ UNCHANGED palettes
           ELSE IF IntegrityError(after)
           THEN /\ Reply(s.req, conflict)
                /\ UNCHANGED palettes
           ELSE /\ palettes' = after
                /\ Reply(s.req, updated(after[id]))
        /\ pc' = [pc EXCEPT ![p] = "idle"]
        /\ sess' = [sess EXCEPT ![p] = NoSession]
        /\ UNCHANGED <<paging, cursor>>

update_palette_commit(p) ==
    /\ pc[p] = "update_palette_commit"
    /\ update_commit(p, api_error("PALETTE_NAME_CONFLICT", NameConflict, 409),
                     InternalServerError)

rename_palette(p, users, ids, names) ==
    /\ pc[p] = "idle"
    /\ \E user_id \in users, palette_id \in ids, given \in names, limited \in BOOLEAN :
        LET req == [op |-> "rename_palette", user_id |-> user_id,
                    palette_id |-> palette_id, name |-> given, limited |-> limited]
            new_name == IF payload_get(given).t = "NoneType" THEN <<>> ELSE strip(given.v)
            palette == session_get(palettes, palette_id)
            Refuse(resp) == Reply(req, resp) /\ UNCHANGED <<pc, sess>>
        IN  IF limited THEN Refuse(_api_error("too many requests", 429))
            ELSE IF new_name = <<>> THEN Refuse(_api_error("palette name is blank", 400))
            ELSE IF palette.id = 0 THEN Refuse(_api_error("not found", 404))
            ELSE IF not_owner(palette, user_id) THEN Refuse(_api_error(Forbidden, 403))
            ELSE IF \E i \in Rows(palettes) :
                        /\ palettes[i].user_id = user_id
                        /\ palettes[i].name = new_name
                        /\ i # palette.id
            THEN Refuse(_api_error(NameConflict, 400))
            ELSE /\ sess' = [sess EXCEPT ![p] =
                        [op |-> "rename_palette", req |-> req, loaded |-> palette,
                         palette |-> [palette EXCEPT !.name = new_name]]]
                 /\ pc' = [pc EXCEPT ![p] = "rename_palette_commit"]
                 /\ UNCHANGED last
    /\ UNCHANGED <<palettes, paging, cursor>>

rename_palette_commit(p) ==
    /\ pc[p] = "rename_palette_commit"
    /\ update_commit(p, _api_error(NameConflict, 400),
                     _api_error("internal server error", 500))

----------------------------------------------------------------------------
(* DELETE /api/v1/palettes/<id> and DELETE /api/palettes/delete/<id> *)

delete_palette(p, users, ids) ==
    /\ pc[p] = "idle"
    /\ \E user_id \in users, palette_id \in ids :
        LET req == [op |-> "delete_palette", user_id |-> user_id, palette_id |-> palette_id]
            palette == session_get(palettes, palette_id)
        IN  IF palette.id = 0
            THEN Reply(req, _palette_not_found) /\ UNCHANGED <<pc, sess>>
            ELSE IF not_owner(palette, user_id)
            THEN Reply(req, api_error("FORBIDDEN", Forbidden, 403)) /\ UNCHANGED <<pc, sess>>
            ELSE /\ sess' = [sess EXCEPT ![p] =
                        [op |-> "delete_palette", req |-> req, loaded |-> palette]]
                 /\ pc' = [pc EXCEPT ![p] = "delete_palette_commit"]
                 /\ UNCHANGED last
    /\ UNCHANGED <<palettes, paging, cursor>>

\* The DELETE; one that matches no row is a warning, not an error.
delete_commit(p, deleted) ==
    /\ palettes' = [i \in 1..Len(palettes) |->
                        IF i = sess[p].loaded.id THEN NoRow ELSE palettes[i]]
    /\ Reply(sess[p].req, deleted)
    /\ pc' = [pc EXCEPT ![p] = "idle"]
    /\ sess' = [sess EXCEPT ![p] = NoSession]
    /\ UNCHANGED <<paging, cursor>>

delete_palette_commit(p) ==
    /\ pc[p] = "delete_palette_commit"
    /\ delete_commit(p, api_success([kind |-> "deleted", deleted |-> TRUE]))

web_delete_palette(p, users, ids) ==
    /\ pc[p] = "idle"
    /\ \E user_id \in users, palette_id \in ids, limited \in BOOLEAN :
        LET req == [op |-> "web_delete_palette", user_id |-> user_id,
                    palette_id |-> palette_id, limited |-> limited]
            palette == session_get(palettes, palette_id)
        IN  IF limited
            THEN Reply(req, _api_error("too many requests", 429)) /\ UNCHANGED <<pc, sess>>
            ELSE IF palette.id = 0
            THEN Reply(req, _api_error("not found", 404)) /\ UNCHANGED <<pc, sess>>
            ELSE IF not_owner(palette, user_id)
            THEN Reply(req, _api_error(Forbidden, 403)) /\ UNCHANGED <<pc, sess>>
            ELSE /\ sess' = [sess EXCEPT ![p] =
                        [op |-> "web_delete_palette", req |-> req, loaded |-> palette]]
                 /\ pc' = [pc EXCEPT ![p] = "web_delete_palette_commit"]
                 /\ UNCHANGED last
    /\ UNCHANGED <<palettes, paging, cursor>>

web_delete_palette_commit(p) ==
    /\ pc[p] = "web_delete_palette_commit"
    /\ delete_commit(p, web_success(NoData))

----------------------------------------------------------------------------
(* The clock.  It counts days, and a handler reads it several times within *)
(* milliseconds: all clock reads of one request return the same value, so  *)
(* the clock advances while no request is between its read and its commit. *)

Tick ==
    /\ now < MaxTime
    /\ \A p \in Procs : pc[p] = "idle"
    /\ now' = now + 1
    /\ UNCHANGED <<tokens, pc, sess, last, accepted, loggedOut, issued>>

----------------------------------------------------------------------------
(* Specifications *)

\* Workers interleave freely between the read phase and the commit of a
\* request.  No handler branches on the device fields (they are copied into
\* the new row), so the interleavings are explored for the default device.
Next ==
    /\ \/ Tick
       \/ \E p \in Procs : login(p, NoDeviceInputs)
       \/ \E p \in Procs : refresh(p, NoDeviceInputs)
       \/ \E p \in Procs : refresh_commit(p)
       \/ \E p \in Procs : logout(p)
       \/ \E p \in Procs : logout_commit(p)
       \/ \E p \in Procs : me(p, HeaderInputs({1}, FALSE, 0))
    /\ UNCHANGED <<config, resetVars, paletteVars>>

Spec == Init /\ [][Next]_vars

\* Requests that do not overlap: a worker takes a step of its request only
\* while no other request is in flight.  All device payloads.
Alone(p) == \A q \in Procs \ {p} : pc[q] = "idle"

NextSeq ==
    /\ \/ Tick
       \/ \E p \in Procs : Alone(p) /\ login(p, DeviceInputs)
       \/ \E p \in Procs : Alone(p) /\ refresh(p, DeviceInputs)
       \/ \E p \in Procs : Alone(p) /\ refresh_commit(p)
       \/ \E p \in Procs : Alone(p) /\ logout(p)
       \/ \E p \in Procs : Alone(p) /\ logout_commit(p)
       \/ \E p \in Procs : Alone(p) /\ me(p, HeaderInputs({1}, FALSE, 0))
    /\ UNCHANGED <<config, resetVars, paletteVars>>

SpecSeq == Init /\ [][NextSeq]_vars

\* Issue and verification of access tokens, for every configured time to
\* live and every presented token.
TtlInputs == {-1, 0, 1, 2}

InitAccess ==
    /\ now = 0
    /\ tokens = <<>>
    /\ pc = [p \in Procs |-> "idle"]
    /\ sess = [p \in Procs |-> NoSession]
    /\ last = [req |-> [op |-> "none"], resp |-> api_success(NoData)]
    /\ accepted = [s \in Secrets |-> 0]
    /\ loggedOut = {}
    /\ issued = [s \in Secrets |-> NoIssue]
    /\ \E ttl \in TtlInputs : config = [DefaultConfig EXCEPT !.JWT_ACCESS_TTL_MINUTES = ttl]
    /\ utcnow = 0
    /\ codes = <<>>
    /\ password_hash = [u \in {1, 2} |-> UserTable[u].password_hash]
    /\ audit = <<>>
    /\ outbox = <<>>
    /\ peak = <<>>
    /\ palettes = <<>>
    /\ paging = NoPaging
    /\ cursor = NoCursor

NextAccess ==
    /\ \/ Tick
       \/ \E p \in Procs : Alone(p) /\ login(p, NoDeviceInputs)
       \/ \E p \in Procs : Alone(p) /\ me(p, HeaderInputs({1, 2}, TRUE, now))
    /\ UNCHANGED <<config, resetVars, paletteVars>>

SpecAccess == InitAccess /\ [][NextAccess]_vars

\* The password-reset flow with workers that interleave between the read
\* phase and the commit of a request, for one user, one contact and one
\* value of the issued code, within the lifetime of the codes (the clock
\* stands still).
NextReset ==
    /\ \/ \E p \in Procs : forgot_password(p, ForgotFormsOne, {"111111"})
       \/ \E p \in Procs : forgot_password_commit(p, {TRUE})
       \/ \E p \in Procs : reset_password(p, ResetFormsOne)
       \/ \E p \in Procs : reset_password_commit(p)
    /\ UNCHANGED <<config, tokenVars, paletteVars>>

\* PASSWORD_RESET_MAX_ATTEMPTS below its minimum: the effective maximum is 3.
InitReset ==
    /\ now = 0
    /\ tokens = <<>>
    /\ pc = [p \in Procs |-> "idle"]
    /\ sess = [p \in Procs |-> NoSession]
    /\ last = [req |-> [op |-> "none"], resp |-> api_success(NoData)]
    /\ accepted = [s \in Secrets |-> 0]
    /\ loggedOut = {}
    /\ issued = [s \in Secrets |-> NoIssue]
    /\ config = [DefaultConfig EXCEPT !.PASSWORD_RESET_MAX_ATTEMPTS = 1]
    /\ utcnow = 0
    /\ codes = <<>>
    /\ password_hash = [u \in {1, 2} |-> UserTable[u].password_hash]
    /\ audit = <<>>
    /\ outbox = <<>>
    /\ peak = <<>>
    /\ palettes = <<>>
    /\ paging = NoPaging
    /\ cursor = NoCursor

SpecReset == InitReset /\ [][NextReset]_vars

\* The password-reset flow with requests executed one at a time, for all
\* forms.
NextResetSeq ==
    /\ \/ TickMinute
       \/ \E p \in Procs : Alone(p) /\ forgot_password(p, ForgotForms, ResetCodes)
       \/ \E p \in Procs : Alone(p) /\ forgot_password_commit(p, {TRUE})
       \/ \E p \in Procs : Alone(p) /\ reset_password(p, ResetForms)
       \/ \E p \in Procs : Alone(p) /\ reset_password_commit(p)
    /\ UNCHANGED <<config, tokenVars, paletteVars>>

SpecResetSeq == Init /\ [][NextResetSeq]_vars

\* Requests for a code may overlap each other, so that a user can hold two
\* active codes; submissions to /reset-password run one at a time.
NoSubmission == \A q \in Procs : pc[q] # "reset_password_commit"

NextResetIssue ==
    /\ \/ \E p \in Procs : NoSubmission /\ forgot_password(p, ForgotFormsTwo, {"111111"})
       \/ \E p \in Procs : NoSubmission /\ forgot_password_commit(p, {TRUE})
       \/ \E p \in Procs : Alone(p) /\ reset_password(p, ResetForms)
       \/ \E p \in Procs : Alone(p) /\ reset_password_commit(p)
    /\ UNCHANGED <<config, tokenVars, paletteVars>>

SpecResetIssue == InitReset /\ [][NextResetIssue]_vars

\* Submissions to /reset-password that overlap each other, between requests
\* for a code that run alone: the issued code with two new passwords, and a
\* wrong code.
ConfirmForms ==
    {Form("email", "diana@example.com", "111111", pw, pw) :
        pw \in {"NewPassword123!", "Second-Pass-123"}}
    \cup {Form("email", "diana@example.com", "222222", "NewPassword123!",
               "NewPassword123!")}

NextConfirm ==
    /\ \/ \E p \in Procs : Alone(p) /\ forgot_password(p, ForgotFormsOne, {"111111"})
       \/ \E p \in Procs : Alone(p) /\ forgot_password_commit(p, {TRUE})
       \/ \E p \in Procs : reset_password(p, ConfirmForms)
       \/ \E p \in Procs : reset_password_commit(p)
    /\ UNCHANGED <<config, tokenVars, paletteVars>>

SpecConfirm == InitReset /\ [][NextConfirm]_vars

\* The password-reset flow of one user next to the token lifecycle of the
\* API, with requests executed one at a time.
NextSessions ==
    \/ /\ \/ \E p \in Procs : Alone(p) /\ login(p, NoDeviceInputs)
          \/ \E p \in Procs : Alone(p) /\ refresh(p, NoDeviceInputs)
          \/ \E p \in Procs : Alone(p) /\ refresh_commit(p)
       /\ UNCHANGED <<config, resetVars, paletteVars>>
    \/ /\ \/ \E p \in Procs : Alone(p) /\ forgot_password(p, ForgotFormsOne, {"111111"})
          \/ \E p \in Procs : Alone(p) /\ forgot_password_commit(p, {TRUE})
          \/ \E p \in Procs : Alone(p) /\ reset_password(p, ResetFormsOne)
       /\ UNCHANGED <<config, tokenVars, paletteVars>>
    \/ /\ \E p \in Procs : Alone(p) /\ reset_password_commit(p)
       /\ UNCHANGED <<config, now, accepted, loggedOut, issued, paletteVars>>

SpecSessions == Init /\ [][NextSessions]_vars

\* Requests for a code, one at a time, in a debug and in a production
\* application, with deliveries that succeed and deliveries that fail.
InitForgot ==
    /\ now = 0
    /\ tokens = <<>>
    /\ pc = [p \in Procs |-> "idle"]
    /\ sess = [p \in Procs |-> NoSession]
    /\ last = [req |-> [op |-> "none"], resp |-> api_success(NoData)]
    /\ accepted = [s \in Secrets |-> 0]
    /\ loggedOut = {}
    /\ issued = [s \in Secrets |-> NoIssue]
    /\ \E debug \in BOOLEAN : config = [DefaultConfig EXCEPT !.DEBUG = debug]
    /\ utcnow = 0
    /\ codes = <<>>
    /\ password_hash = [u \in {1, 2} |-> UserTable[u].password_hash]
    /\ audit = <<>>
    /\ outbox = <<>>
    /\ peak = <<>>
    /\ palettes = <<>>
    /\ paging = NoPaging
    /\ cursor = NoCursor

NextForgot ==
    /\ \/ TickMinute
       \/ \E p \in Procs : Alone(p) /\ forgot_password(p, ForgotForms, ResetCodes)
       \/ \E p \in Procs : Alone(p) /\ forgot_password_commit(p, BOOLEAN)
    /\ UNCHANGED <<config, tokenVars, paletteVars>>

SpecForgot == InitForgot /\ [][NextForgot]_vars


\* The datetimes and ids of the keys that are encoded: with and without
\* microseconds, naive and with offsets east, west and of an odd second.
CursorDates == {<<2026, 2, 21>>, <<2024, 2, 29>>, <<1, 1, 1>>, <<9999, 12, 31>>}
CursorTimes == {<<0, 0, 0>>, <<9, 5, 7>>, <<23, 59, 59>>}
CursorMicroseconds == {0, 1, 250000, 999999}
CursorOffsets == {NULL, 0, 10800, 0 - 19800, 3601}
CursorIds == {0 - 12, 0, 7, 2147483647}

CursorKeys ==
    {<<datetime(d[1], d[2], d[3], t[1], t[2], t[3], us, off), id>> :
        d \in CursorDates, t \in CursorTimes, us \in CursorMicroseconds,
        off \in CursorOffsets, id \in CursorIds}

\* Documents a client can put into a cursor.
GarbageDocs ==
    {
     \* {"created_at":"2026-02-21T10:00:00","id":Infinity}
     <<"{", "\"", "c", "r", "e", "a", "t", "e", "d", "_", "a", "t", "\"", ":", "\"",
       "2", "0", "2", "6", "-", "0", "2", "-", "2", "1", "T", "1", "0", ":", "0", "0",
       ":", "0", "0", "\"", ",", "\"", "i", "d", "\"", ":", "I", "n", "f", "i", "n",
       "i", "t", "y", "}">>,
     \* {"created_at":"2026-02-21T10:00:00","id":-Infinity}
     <<"{", "\"", "c", "r", "e", "a", "t", "e", "d", "_", "a", "t", "\"", ":", "\"",
       "2", "0", "2", "6", "-", "0", "2", "-", "2", "1", "T", "1", "0", ":", "0", "0",
       ":", "0", "0", "\"", ",", "\"", "i", "d", "\"", ":", "-", "I", "n", "f", "i",
       "n", "i", "t", "y", "}">>,
     \* {"created_at":"2026-02-21T10:00:00","id":NaN}
     <<"{", "\"", "c", "r", "e", "a", "t", "e", "d", "_", "a", "t", "\"", ":", "\"",
       "2", "0", "2", "6", "-", "0", "2", "-", "2", "1", "T", "1", "0", ":", "0", "0",
       ":", "0", "0", "\"", ",", "\"", "i", "d", "\"", ":", "N", "a", "N", "}">>,
     \* {"created_at":"2026-02-21T10:00:00","id":1e999}
     <<"{", "\"", "c", "r", "e", "a", "t", "e", "d", "_", "a", "t", "\"", ":", "\"",
       "2", "0", "2", "6", "-", "0", "2", "-", "2", "1", "T", "1", "0", ":", "0", "0",
       ":", "0", "0", "\"", ",", "\"", "i", "d", "\"", ":", "1", "e", "9", "9", "9",
       "}">>,
     \* {"created_at":"2026-02-21T10:00:00","id":1.5}
     <<"{", "\"", "c", "r", "e", "a", "t", "e", "d", "_", "a", "t", "\"", ":", "\"",
       "2", "0", "2", "6", "-", "0", "2", "-", "2", "1", "T", "1", "0", ":", "0", "0",
       ":", "0", "0", "\"", ",", "\"", "i", "d", "\"", ":", "1", ".", "5", "}">>,
     \* {"created_at":"2026-02-21T10:00:00","id":"7"}
     <<"{", "\"", "c", "r", "e", "a", "t", "e", "d", "_", "a", "t", "\"", ":", "\"",
       "2", "0", "2", "6", "-", "0", "2", "-", "2", "1", "T", "1", "0", ":", "0", "0",
       ":", "0", "0", "\"", ",", "\"", "i", "d", "\"", ":", "\"", "7", "\"", "}">>,
     \* {"created_at":"2026-02-21T10:00:00","id":"x"}
     <<"{", "\"", "c", "r", "e", "a", "t", "e", "d", "_", "a", "t", "\"", ":", "\"",
       "2", "0", "2", "6", "-", "0", "2", "-", "2", "1", "T", "1", "0", ":", "0", "0",
       ":", "0", "0", "\"", ",", "\"", "i", "d", "\"", ":", "\"", "x", "\"", "}">>,
     \* {"created_at":"2026-02-21T10:00:00","id":null}
     <<"{", "\"", "c", "r", "e", "a", "t", "e", "d", "_", "a", "t", "\"", ":", "\"",
       "2", "0", "2", "6", "-", "0", "2", "-", "2", "1", "T", "1", "0", ":", "0", "0",
       ":", "0", "0", "\"", ",", "\"", "i", "d", "\"", ":", "n", "u", "l", "l", "}">>,
     \* {"created_at":"2026-02-21T10:00:00","id":true}
     <<"{", "\"", "c", "r", "e", "a", "t", "e", "d", "_", "a", "t", "\"", ":", "\"",
       "2", "0", "2", "6", "-", "0", "2", "-", "2", "1", "T", "1", "0", ":", "0", "0",
       ":", "0", "0", "\"", ",", "\"", "i", "d", "\"", ":", "t", "r", "u", "e", "}">>,
     \* {"created_at":"2026-02-21T10:00:00","id":[1]}
     <<"{", "\"", "c", "r", "e", "a", "t", "e", "d", "_", "a", "t", "\"", ":", "\"",
       "2", "0", "2", "6", "-", "0", "2", "-", "2", "1", "T", "1", "0", ":", "0", "0",
       ":", "0", "0", "\"", ",", "\"", "i", "d", "\"", ":", "[", "1", "]", "}">>,
     \* {"created_at":"2026-02-21T10:00:00"}
     <<"{", "\"", "c", "r", "e", "a", "t", "e", "d", "_", "a", "t", "\"", ":", "\"",
       "2", "0", "2", "6", "-", "0", "2", "-", "2", "1", "T", "1", "0", ":", "0", "0",
       ":", "0", "0", "\"", "}">>,
     \* {"created_at":"2026-02-21","id":3}
     <<"{", "\"", "c", "r", "e", "a", "t", "e", "d", "_", "a", "t", "\"", ":", "\"",
       "2", "0", "2", "6", "-", "0", "2", "-", "2", "1", "\"", ",", "\"", "i", "d",
       "\"", ":", "3", "}">>,
     \* {"created_at":"2026-13-21T10:00:00","id":3}
     <<"{", "\"", "c", "r", "e", "a", "t", "e", "d", "_", "a", "t", "\"", ":", "\"",
       "2", "0", "2", "6", "-", "1", "3", "-", "2", "1", "T", "1", "0", ":", "0", "0",
       ":", "0", "0", "\"", ",", "\"", "i", "d", "\"", ":", "3", "}">>,
     \* {"created_at":"yesterday","id":3}
     <<"{", "\"", "c", "r", "e", "a", "t", "e", "d", "_", "a", "t", "\"", ":", "\"",
       "y", "e", "s", "t", "e", "r", "d", "a", "y", "\"", ",", "\"", "i", "d", "\"",
       ":", "3", "}">>,
     \* {"created_at":5,"id":3}
     <<"{", "\"", "c", "r", "e", "a", "t", "e", "d", "_", "a", "t", "\"", ":", "5",
       ",", "\"", "i", "d", "\"", ":", "3", "}">>,
     \* {"id":3}
     <<"{", "\"", "i", "d", "\"", ":", "3", "}">>,
     \* {"id":3
     <<"{", "\"", "i", "d", "\"", ":", "3">>,
     \* { "id" : 3 , "created_at" : "2026-02-21 10:00:00.250+03:00" }
     <<"{", " ", "\"", "i", "d", "\"", " ", ":", " ", "3", " ", ",", " ", "\"", "c",
       "r", "e", "a", "t", "e", "d", "_", "a", "t", "\"", " ", ":", " ", "\"", "2",
       "0", "2", "6", "-", "0", "2", "-", "2", "1", " ", "1", "0", ":", "0", "0", ":",
       "0", "0", ".", "2", "5", "0", "+", "0", "3", ":", "0", "0", "\"", " ", "}">>,
     \* [1,2]
     <<"[", "1", ",", "2", "]">>,
     \* [[[1]]]
     <<"[", "[", "[", "1", "]", "]", "]">>,
     \* [[[[1]]]]
     <<"[", "[", "[", "[", "1", "]", "]", "]", "]">>,
     \* "text"
     <<"\"", "t", "e", "x", "t", "\"">>,
     \* 5
     <<"5">>,
     \* null
     <<"n", "u", "l", "l">>,
     \* hello
     <<"h", "e", "l", "l", "o">>,
     \* {}
     <<"{", "}">>
    }

\* Bytes that are not UTF-8, and UTF-8 that is not JSON.
GarbageBytes == {<<255, 254>>, <<195, 169>>, <<123, 255, 125>>}

\* Cursor strings that are not the base64 of anything, or not ASCII.
GarbageStrings ==
    {<<"A">>, <<"!">>, <<"A", "=", "A">>, <<"e", "y", "J", "=", "=", "=">>,
     <<"e-acute">>, <<"e", "w", "+", "/">>}

\* The cursor strings a client sends besides the ones it was given.
GarbageCursors ==
    {rstrip_pad(urlsafe_b64encode(encode_ascii(doc).value)) : doc \in GarbageDocs}
    \cup {rstrip_pad(urlsafe_b64encode(data)) : data \in GarbageBytes}
    \cup GarbageStrings

\* Every variable but those of the palette routes, as the application starts.
InitRest ==
    /\ now = 0
    /\ tokens = <<>>
    /\ pc = [p \in Procs |-> "idle"]
    /\ sess = [p \in Procs |-> NoSession]
    /\ last = [req |-> [op |-> "none"], resp |-> api_success(NoData)]
    /\ accepted = [s \in Secrets |-> 0]
    /\ loggedOut = {}
    /\ issued = [s \in Secrets |-> NoIssue]
    /\ config = DefaultConfig
    /\ utcnow = 0
    /\ codes = <<>>
    /\ password_hash = [u \in {1, 2} |-> UserTable[u].password_hash]
    /\ audit = <<>>
    /\ outbox = <<>>
    /\ peak = <<>>

\* The codec on its own: a key is encoded and the string decoded, or a
\* string arrives from a client and is decoded.
InitCursor ==
    /\ InitRest
    /\ palettes = <<>>
    /\ paging = NoPaging
    /\ \/ \E key \in CursorKeys :
             cursor = [stage |-> "key", origin |-> "key", key |-> key, text |-> <<>>,
                       result |-> Return(None)]
       \/ \E text \in GarbageCursors :
             cursor = [stage |-> "encoded", origin |-> "client", key |-> None,
                       text |-> text, result |-> Return(None)]

EncodeCursor ==
    /\ cursor.stage = "key"
    /\ cursor' = [cursor EXCEPT !.stage = "encoded",
                                !.text = encode_cursor(cursor.key[1], cursor.key[2])]

DecodeCursor ==
    /\ cursor.stage = "encoded"
    /\ cursor' = [cursor EXCEPT !.stage = "decoded",
                                !.result = decode_cursor(cursor.text)]

NextCursor ==
    /\ \/ EncodeCursor
       \/ DecodeCursor
    /\ UNCHANGED <<now, tokens, pc, sess, last, accepted, loggedOut, issued, config,
                   resetVars, palettes, paging>>

SpecCursor == InitCursor /\ [][NextCursor]_vars

\* The palette routes from an empty table.
InitPalettes ==
    /\ InitRest
    /\ palettes = <<>>
    /\ paging = NoPaging
    /\ cursor = NoCursor

\* ["#aa2200", " #CC4400 ", "#EE6600"]
ThreeColors ==
    PyList(<<PyStr(<<"#", "a", "a", "2", "2", "0", "0">>),
             PyStr(<<" ", "#", "C", "C", "4", "4", "0", "0", " ">>),
             PyStr(<<"#", "E", "E", "6", "6", "0", "0">>)>>)

PaletteOwners == {1, 2}

\* Values of the limit argument: missing, below the minimum, and in range.
PageLimits == {NULL, 0, 2, 3}

\* One client pages through its palettes while palettes are created, all
\* under the name that resolve_palette_name picks.
NextPaging ==
    /\ \/ TickMinute /\ UNCHANGED paletteVars
       \/ \E p \in Procs :
            /\ create_palette(p, PaletteOwners, {[name |-> Absent, colors |-> ThreeColors]})
            /\ UNCHANGED resetVars
       \/ \E p \in Procs : create_palette_commit(p) /\ UNCHANGED resetVars
       \/ \E p \in Procs : list_palettes(p, PaletteOwners, PageLimits, {}) /\ UNCHANGED resetVars
    /\ UNCHANGED <<config, tokenVars>>

SpecPaging == InitPalettes /\ [][NextPaging]_vars

\* ["#112233", "#445566", "#778899"]
OtherColors ==
    PyList(<<PyStr(<<"#", "1", "1", "2", "2", "3", "3">>),
             PyStr(<<"#", "4", "4", "5", "5", "6", "6">>),
             PyStr(<<"#", "7", "7", "8", "8", "9", "9">>)>>)

\* Bodies of POST /palettes and POST /api/palettes/save: no name, a name, the
\* same name with blanks around it, the default base name, a blank name.
CreatePayloads ==
    {[name |-> n, colors |-> ThreeColors] :
        n \in {Absent, PyStr(Brand), PyStr(<<" ">> \o Brand \o <<" ">>),
               PyStr(default_base_name), PyStr(<<" ", " ">>)}}

\* Bodies of PATCH /palettes/<id> that rename.
RenamePayloads ==
    {[name |-> PyStr(Brand), colors |-> Absent],
     [name |-> PyStr(default_base_name), colors |-> Absent]}

PaletteIds == 1..MaxPalettes

\* The routes that name a palette, on two workers.
NextPalettes ==
    /\ \/ \E p \in Procs : create_palette(p, PaletteOwners, CreatePayloads)
       \/ \E p \in Procs : create_palette_commit(p)
       \/ \E p \in Procs : save_palette(p, {1}, {[name |-> PyStr(Brand), colors |-> ThreeColors]})
       \/ \E p \in Procs : save_palette_commit(p)
       \/ \E p \in Procs : update_palette(p, {1}, PaletteIds, RenamePayloads)
       \/ \E p \in Procs : update_palette_commit(p)
       \/ \E p \in Procs : rename_palette(p, {1}, PaletteIds, {PyStr(Brand)})
       \/ \E p \in Procs : rename_palette_commit(p)
    /\ UNCHANGED <<config, tokenVars, resetVars>>

SpecPalettes == InitPalettes /\ [][NextPalettes]_vars

\* Bodies of PATCH /palettes/<id>: a name, colours, a null name, nothing.
UpdatePayloads ==
    {[name |-> PyStr(Brand), colors |-> Absent],
     [name |-> Absent, colors |-> OtherColors],
     [name |-> PyNone, colors |-> Absent],
     [name |-> Absent, colors |-> Absent]}

\* Two users create palettes, and each asks to change and to delete any of
\* them, one request at a time.
NextOwnership ==
    /\ \/ \E p \in Procs : Alone(p) /\
            create_palette(p, PaletteOwners, {[name |-> Absent, colors |-> ThreeColors]})
       \/ \E p \in Procs : Alone(p) /\ create_palette_commit(p)
       \/ \E p \in Procs : Alone(p) /\
            update_palette(p, PaletteOwners, PaletteIds, UpdatePayloads)
       \/ \E p \in Procs : Alone(p) /\ update_palette_commit(p)
       \/ \E p \in Procs : Alone(p) /\ delete_palette(p, PaletteOwners, PaletteIds)
       \/ \E p \in Procs : Alone(p) /\ delete_palette_commit(p)
       \/ \E p \in Procs : Alone(p) /\ web_delete_palette(p, PaletteOwners, PaletteIds)
       \/ \E p \in Procs : Alone(p) /\ web_delete_palette_commit(p)
    /\ UNCHANGED <<config, tokenVars, resetVars>>

SpecOwnership == InitPalettes /\ [][NextOwnership]_vars

\* The cursors a client can send that it was not given for its own pages:
\* the cursor of any stored palette, whoever owns it, a cursor made up for a
\* key above every stored palette, and a string that is no cursor.
ForgedCursors ==
    {encode_cursor(palettes[i].created_at, palettes[i].id) : i \in Rows(palettes)}
    \cup {encode_cursor(created_at_default(MaxMinutes), MaxPalettes + 1), <<"A">>}

\* Two users create palettes, and the first lists its palettes with every
\* such cursor, one request at a time.
NextForged ==
    /\ \/ TickMinute /\ UNCHANGED paletteVars
       \/ \E p \in Procs :
            /\ Alone(p)
            /\ create_palette(p, PaletteOwners, {[name |-> Absent, colors |-> ThreeColors]})
            /\ UNCHANGED resetVars
       \/ \E p \in Procs : Alone(p) /\ create_palette_commit(p) /\ UNCHANGED resetVars
       \/ \E p \in Procs :
            /\ Alone(p)
            /\ list_palettes(p, {1}, {NULL}, ForgedCursors)
            /\ UNCHANGED resetVars
    /\ UNCHANGED <<config, tokenVars>>

SpecForged == InitPalettes /\ [][NextForged]_vars

----------------------------------------------------------------------------
(* Properties *)

\* A refresh request that got past the rate limiter and carried a token.
RefreshServed == last.req.op = "refresh" /\ ~last.req.limited /\ last.req.refresh_token # Blank

\* A logout request that carried a token.
LogoutServed == last.req.op = "logout" /\ last.req.refresh_token # Blank

Active(seen) == seen.exists /\ ~seen.revoked /\ ~seen.expired

\* C1: once a rotation of a secret has been committed, get_active_refresh_token
\* of that secret fails with AUTH_INVALID_REFRESH in every later state, and
\* every refresh request that presents it afterwards is answered 401
\* AUTH_INVALID_REFRESH, whatever logins, refreshes and logouts came between.
C1_SingleUse ==
    /\ \A s \in Secrets : accepted[s] > 0 =>
          LET r == get_active_refresh_token(tokens, s, now)
          IN  ~r.ok /\ r.error.code = "AUTH_INVALID_REFRESH"
    /\ (RefreshServed /\ last.req.after_rotation) =>
          /\ ~last.resp.success
          /\ last.resp.status = 401
          /\ last.resp.code = "AUTH_INVALID_REFRESH"

\* A rotated secret was replayed after its record had also expired.
C1_Witness ==
    /\ RefreshServed
    /\ last.req.after_rotation
    /\ last.req.seen.expired
    /\ last.resp.code = "AUTH_INVALID_REFRESH"

\* C2: of the refresh requests that present one secret, at most one is
\* answered with a token pair, however the workers interleave.
C2_AtMostOneWinner == \A s \in Secrets : accepted[s] <= 1

\* The raw secret behind a stored hash.
SecretOf(row) == CHOOSE s \in Secrets : _hash_token(s) = row.token_hash

\* C3: a refresh request either commits the revocation of the presented record
\* together with the new record and answers with the pair, or changes nothing
\* and answers with an error; a record revoked by a rotation is followed by
\* the record that rotation stored.
C3_AllOrNothing ==
    /\ [](\A i \in 1..Len(tokens) :
            (tokens[i].revoked_at # NULL /\ SecretOf(tokens[i]) \notin loggedOut) =>
                \E j \in (i + 1)..Len(tokens) :
                    /\ tokens[j].user_id = tokens[i].user_id
                    /\ tokens[j].created_at >= tokens[i].revoked_at)
    /\ [][/\ \A p \in Procs :
                (pc[p] = "refresh_commit" /\ pc'[p] = "idle") =>
                    LET d == sess[p].dirty[1]
                        n == sess[p].new[1]
                    IN  \/ /\ last'.resp.success
                           /\ Len(tokens') = Len(tokens) + 1
                           /\ d.revoked_at # NULL
                           /\ tokens'[d.token].revoked_at = d.revoked_at
                           /\ tokens'[Len(tokens')].token_hash = n.token_hash
                           /\ tokens'[Len(tokens')].revoked_at = NULL
                           /\ \A i \in 1..Len(tokens) : i # d.token => tokens'[i] = tokens[i]
                        \/ /\ ~last'.resp.success
                           /\ tokens' = tokens
          /\ (pc' = pc /\ now' = now /\ last'.req.op = "refresh") => tokens' = tokens
         ]_vars

\* The commit of a rotation failed and was rolled back while the presented
\* record is still unrevoked.
C3_Witness ==
    /\ RefreshServed
    /\ last.resp.status = 500
    /\ \E i \in 1..Len(tokens) :
          /\ tokens[i].token_hash = _hash_token(last.req.refresh_token)
          /\ tokens[i].revoked_at = NULL

\* The stored records whose expiry lies in the past.
PastExpiry == {i \in 1..Len(tokens) : tokens[i].expires_at < now}

\* C4 (as claimed): get_active_refresh_token fails with AUTH_REFRESH_EXPIRED on
\* the secret of every stored record whose expires_at is in the past, whatever
\* its revoked_at.
C4_ExpiredWhateverRevoked ==
    \A i \in PastExpiry :
        LET r == get_active_refresh_token(tokens, SecretOf(tokens[i]), now)
        IN  ~r.ok /\ r.error.code = "AUTH_REFRESH_EXPIRED"

\* C4 (amended): on the secret of a stored record whose expires_at is in the
\* past, get_active_refresh_token fails with AUTH_REFRESH_EXPIRED when
\* revoked_at is null and with AUTH_INVALID_REFRESH when the record was
\* rotated or revoked.
C4_ExpiredUnlessRevoked ==
    \A i \in PastExpiry :
        LET r == get_active_refresh_token(tokens, SecretOf(tokens[i]), now)
        IN  /\ ~r.ok
            /\ r.error.status = 401
            /\ r.error.code = IF tokens[i].revoked_at = NULL
                              THEN "AUTH_REFRESH_EXPIRED"
                              ELSE "AUTH_INVALID_REFRESH"

\* Two records are past their expiry, one never revoked and one revoked
\* before it expired.
C4_Witness ==
    /\ \E i \in PastExpiry : tokens[i].revoked_at = NULL
    /\ \E i \in PastExpiry : tokens[i].revoked_at # NULL /\ tokens[i].revoked_at < tokens[i].expires_at

\* A refresh request that was answered with an authentication error.
RefreshRejected == RefreshServed /\ ~last.resp.success /\ last.resp.status = 401

\* C5 (as claimed): every rejected refresh request carries the code
\* AUTH_INVALID_REFRESH, whether the secret was never issued, has expired or
\* was already rotated.
C5_OneCode == RefreshRejected => last.resp.code = "AUTH_INVALID_REFRESH"

\* C5 (amended): a rejected refresh request carries AUTH_INVALID_REFRESH when
\* the secret was never issued or its record was already rotated or revoked,
\* and AUTH_REFRESH_EXPIRED when its record is unrevoked and expired.
C5_TwoCodes ==
    RefreshRejected =>
        /\ ~Active(last.req.seen)
        /\ last.resp.code =
              IF last.req.seen.exists /\ ~last.req.seen.revoked
              THEN "AUTH_REFRESH_EXPIRED"
              ELSE "AUTH_INVALID_REFRESH"

\* A refresh request presented an unrevoked, expired secret and was rejected.
C5_Witness ==
    /\ RefreshRejected
    /\ last.req.seen.exists
    /\ ~last.req.seen.revoked
    /\ last.req.seen.expired

\* C6: the error for a secret whose record is revoked equals, in code, status
\* and message, the error for a secret that was never issued.
C6_RevokedLikeUnknown ==
    \A s, u \in Secrets :
        LET ss == RecordState(tokens, s, now)
            su == RecordState(tokens, u, now)
        IN  (ss.exists /\ ss.revoked /\ ~su.exists) =>
                _auth_error_response(get_active_refresh_token(tokens, s, now).error)
                    = _auth_error_response(get_active_refresh_token(tokens, u, now).error)

\* The rows that hold the hash of a secret.
Hits(raw_token) == {i \in 1..Len(tokens) : tokens[i].token_hash = _hash_token(raw_token)}

\* C7: a logout answers revoked = true exactly when a record with the secret's
\* hash exists, be it active, revoked, rotated or expired; on a record that is
\* already revoked it writes nothing, so revoked_at and last_used_at stay as
\* the first revocation set them; on an unrevoked record it sets both.
C7_RevokeIdempotent ==
    [][\A p \in Procs :
          (pc[p] = "logout_commit" /\ pc'[p] = "idle") =>
              LET hits == Hits(sess[p].req.refresh_token)
              IN  /\ last'.resp.success
                  /\ last'.resp.data.revoked = (hits # {})
                  /\ \A i \in hits :
                        IF tokens[i].revoked_at # NULL
                        THEN tokens' = tokens
                        ELSE /\ tokens'[i].revoked_at # NULL
                             /\ tokens'[i].last_used_at = tokens'[i].revoked_at
                  /\ Len(tokens') = Len(tokens)
                  /\ \A j \in (1..Len(tokens)) \ hits : tokens'[j] = tokens[j]
      ]_vars

\* A secret was logged out a second time, at a later time than its record
\* was revoked, and the answer was revoked = true again.
C7_Witness ==
    /\ LogoutServed
    /\ last.req.after_logout
    /\ last.resp.data.revoked
    /\ \E i \in Hits(last.req.refresh_token) : tokens[i].revoked_at < now

\* C8: once a logout of a secret has been committed with revoked = true, the
\* secret is never active again and every later refresh that presents it is
\* answered 401 AUTH_INVALID_REFRESH; no step removes a record or sets the
\* revoked_at of a revoked or rotated record back to null.
C8_RevocationTerminal ==
    /\ [](\A s \in loggedOut :
            LET r == get_active_refresh_token(tokens, s, now)
            IN  ~r.ok /\ r.error.code = "AUTH_INVALID_REFRESH")
    /\ []((RefreshServed /\ last.req.after_logout) =>
            /\ last.resp.status = 401
            /\ last.resp.code = "AUTH_INVALID_REFRESH")
    /\ [][/\ Len(tokens') >= Len(tokens)
          /\ \A i \in 1..Len(tokens) :
                tokens[i].revoked_at # NULL => tokens'[i].revoked_at # NULL
         ]_vars

\* A secret that was logged out, and never rotated, was presented to refresh
\* and rejected.
C8_Witness ==
    /\ RefreshServed
    /\ last.req.after_logout
    /\ ~last.req.after_rotation
    /\ last.resp.code = "AUTH_INVALID_REFRESH"

\* C9: a secret returned with a token pair, before its expiry and before any
\* committed rotation or logout of it, is accepted by get_active_refresh_token,
\* which returns a record owned by the user the pair was issued for.
C9_IssuedIsActive ==
    \A s \in Secrets :
        (/\ issued[s].user_id # 0
         /\ now < issued[s].issued_at + Max(1, JWT_REFRESH_TTL_DAYS)
         /\ accepted[s] = 0
         /\ s \notin loggedOut) =>
            LET r == get_active_refresh_token(tokens, s, now)
            IN  /\ r.ok
                /\ tokens[r.token].user_id = issued[s].user_id

\* Two users hold a fresh secret each, one from a login and one from a
\* rotation, on different devices.
C9_Witness ==
    \E s, u \in Secrets :
        /\ issued[s].user_id = 1 /\ issued[u].user_id = 2
        /\ accepted[s] = 0 /\ accepted[u] = 0
        /\ s \notin loggedOut /\ u \notin loggedOut
        /\ now < issued[s].issued_at + Max(1, JWT_REFRESH_TTL_DAYS)
        /\ now < issued[u].issued_at + Max(1, JWT_REFRESH_TTL_DAYS)
        /\ \E i \in Hits(s), j \in Hits(u) : tokens[i].device_id # tokens[j].device_id

\* C10: a successful rotation returns a secret different from the presented
\* one; a secret is rotated at most once; a refresh succeeds only if the record
\* was active when it was read, and then it does succeed unless the INSERT of
\* the new record hits the unique constraint (answer 500, nothing changed).
C10_AcceptedOnce ==
    /\ \A s \in Secrets : accepted[s] <= 1
    /\ RefreshServed =>
          /\ last.resp.success =>
                /\ Active(last.req.seen)
                /\ last.resp.data.refresh_token # last.req.refresh_token
                /\ accepted[last.req.refresh_token] = 1
          /\ ~Active(last.req.seen) => ~last.resp.success
          /\ (Active(last.req.seen) /\ last.resp.status # 500) => last.resp.success

\* A rotation succeeded and its secret was then replayed and rejected.
C10_Witness ==
    /\ RefreshServed
    /\ ~last.resp.success
    /\ accepted[last.req.refresh_token] = 1
    /\ \E s \in Secrets : issued[s].user_id # 0 /\ s # last.req.refresh_token

\* C11: the record stored by a successful rotation belongs to the user of
\* the rotated record and carries the device_id and device_name of the refresh
\* request (the defaults when the request names none), not those of the
\* rotated record; a refresh of an active record is never rejected because
\* its device differs from the record's.
C11_CallerDevice ==
    RefreshServed =>
        /\ last.resp.success =>
              \E i \in Hits(last.req.refresh_token), j \in Hits(last.resp.data.refresh_token) :
                  /\ i < j
                  /\ tokens[j].user_id = tokens[i].user_id
                  /\ tokens[j].device_id = NormDeviceId(last.req.device_id)
                  /\ tokens[j].device_name = NormDeviceName(last.req.device_name)
        /\ Active(last.req.seen) => last.resp.status # 401

\* A rotation succeeded for a request whose device differs from the device
\* of the rotated record.
C11_Witness ==
    /\ RefreshServed
    /\ last.resp.success
    /\ \E i \in Hits(last.req.refresh_token), j \in Hits(last.resp.data.refresh_token) :
          /\ tokens[i].device_id = "pixel-1"
          /\ tokens[j].device_id = "android"
          /\ tokens[j].user_id = tokens[i].user_id

\* C12: no step of a login, refresh, logout or bearer verification removes a
\* refresh-token record or changes its id, user_id, token_hash, device_id,
\* device_name, created_at or expires_at; a step changes at most revoked_at
\* and last_used_at of existing records.
C12_AppendOnly ==
    [][/\ Len(tokens') >= Len(tokens)
       /\ \A i \in 1..Len(tokens) :
             tokens'[i] = [tokens[i] EXCEPT !.revoked_at = tokens'[i].revoked_at,
                                            !.last_used_at = tokens'[i].last_used_at]
      ]_vars

\* A record was revoked at a later time than it was stored, another record
\* was stored after it, and a bearer verification was served last.
C12_Witness ==
    /\ last.req.op = "me"
    /\ \E i \in 1..Len(tokens) :
          /\ tokens[i].revoked_at # NULL
          /\ tokens[i].last_used_at > tokens[i].created_at
          /\ i < Len(tokens)

\* The access tokens presented at the current time, genuine and forged.
PresentedTokens == UNION {Forgeries(a) : a \in IssuedAccessTokens({1, 2}, now)}

\* C13: parse_access_token returns the claims exactly for a token with a
\* valid signature, matching issuer and audience, exp in the future and
\* type = access; a correctly signed token past its expiry fails with
\* AUTH_TOKEN_EXPIRED; a token with a bad signature, and an unexpired token
\* with a wrong issuer, a wrong audience or a type other than access, fails
\* with AUTH_INVALID_TOKEN; the bearer verification answers accordingly.
C13_ParseAccessToken ==
    /\ [](\A token \in PresentedTokens :
            LET r == parse_access_token(token, now)
                signed == token.key = config.JWT_SECRET_KEY
                expired == token.payload.exp <= Timestamp(now)
                matching == /\ token.payload.iss = config.JWT_ISSUER
                            /\ token.payload.aud = config.JWT_AUDIENCE
                            /\ token.payload.type = "access"
            IN  /\ r.ok <=> (signed /\ ~expired /\ matching)
                /\ r.ok => r.payload = token.payload
                /\ (signed /\ expired) =>
                      (r.error.code = "AUTH_TOKEN_EXPIRED" /\ r.error.status = 401)
                /\ (~signed \/ (~expired /\ ~matching)) =>
                      (r.error.code = "AUTH_INVALID_TOKEN" /\ r.error.status = 401))
    /\ [][(/\ last'.req.op = "me"
            /\ now' = now
            /\ last'.req.auth_header.scheme = "Bearer"
            /\ last'.req.auth_header.token # EmptyToken) =>
              LET token == last'.req.auth_header.token
                  signed == token.key = config.JWT_SECRET_KEY
                  expired == token.payload.exp <= Timestamp(now)
              IN  /\ last'.resp.success => (signed /\ ~expired /\ token.payload.type = "access")
                  /\ (signed /\ expired) => last'.resp.code = "AUTH_TOKEN_EXPIRED"
                  /\ ~signed => last'.resp.code = "AUTH_INVALID_TOKEN"
                  /\ (~expired /\ token.payload.type # "access") =>
                        last'.resp.code = "AUTH_INVALID_TOKEN"
          ]_vars

\* A bearer verification rejected a correctly signed, unexpired token whose
\* type claim is refresh.
C13_Witness ==
    /\ last.req.op = "me"
    /\ last.req.auth_header.scheme = "Bearer"
    /\ last.req.auth_header.token # EmptyToken
    /\ last.req.auth_header.token.key = config.JWT_SECRET_KEY
    /\ last.req.auth_header.token.payload.type = "refresh"
    /\ last.req.auth_header.token.payload.exp > Timestamp(now)
    /\ last.resp.code = "AUTH_INVALID_TOKEN"

\* C14: for every configured JWT_ACCESS_TTL_MINUTES, zero and negative values
\* included, the access token of an issued pair has exp - iat equal to 60
\* times the configured value, or 60 when that value is below 1, which is
\* positive, and the pair's expires_in is that same number of seconds.
C14_AccessTtl ==
    (last.req.op = "login" /\ last.resp.success) =>
        LET claims == last.resp.data.access_token.payload
            ttl == config.JWT_ACCESS_TTL_MINUTES
            seconds == IF ttl >= 1 THEN 60 * ttl ELSE 60
        IN  /\ claims.exp - claims.iat = seconds
            /\ claims.exp > claims.iat
            /\ last.resp.data.expires_in = seconds

\* A login issued a pair while the configured time to live is negative.
C14_Witness ==
    /\ last.req.op = "login"
    /\ last.resp.success
    /\ config.JWT_ACCESS_TTL_MINUTES < 0
    /\ last.resp.data.expires_in = 60

\* A login request that got past both rate limiters was answered in this step.
LoginServed == last' # last /\ last'.req.op = "login" /\ last'.req.limited = "none"

\* The usernames that exist, each with its password.
Registered == {<<"diana", "Password123!">>, <<"erin", "Password123!">>}

\* C15: a login with an existing username and its password that is not rate
\* limited is answered 200 with a non-empty access_token, a non-empty
\* refresh_token, expires_in > 0 and token_type Bearer, and commits exactly
\* one new record, owned by that user and active right after the request; the
\* one other outcome is the answer 500 with nothing stored, when the INSERT
\* of the new record hits the unique constraint on token_hash.
C15_LoginIssues ==
    [][(LoginServed /\ <<last'.req.username, last'.req.password>> \in Registered) =>
          \/ /\ last'.resp.status = 200
             /\ last'.resp.success
             /\ last'.resp.data.access_token # EmptyToken
             /\ last'.resp.data.refresh_token # Blank
             /\ last'.resp.data.expires_in > 0
             /\ last'.resp.data.token_type = "Bearer"
             /\ Len(tokens') = Len(tokens) + 1
             /\ \A i \in 1..Len(tokens) : tokens'[i] = tokens[i]
             /\ LET r == get_active_refresh_token(tokens', last'.resp.data.refresh_token, now')
                IN  /\ r.ok
                    /\ r.token = Len(tokens')
                    /\ UserTable[tokens'[r.token].user_id].username = last'.req.username
                    /\ last'.resp.data.user.username = last'.req.username
          \/ /\ last'.resp.status = 500
             /\ tokens' = tokens
      ]_vars

\* diana logged in from the device pixel-1 and holds the secret of a record
\* stored for that device.
C15_Witness ==
    /\ last.req.op = "login"
    /\ last.req.limited = "none"
    /\ last.req.username = "diana"
    /\ last.resp.success
    /\ \E i \in Hits(last.resp.data.refresh_token) :
          /\ tokens[i].device_id = "pixel-1"
          /\ tokens[i].user_id = 1
          /\ tokens[i].revoked_at = NULL

\* C16: a login with non-empty username and password that fails the
\* authentication is answered with one and the same response (401,
\* AUTH_INVALID_CREDENTIALS, one message) whether the username is unknown or
\* the password is wrong, and stores no record.
C16_SameFailure ==
    [][(/\ LoginServed
        /\ last'.req.username # ""
        /\ last'.req.password # ""
        /\ <<last'.req.username, last'.req.password>> \notin Registered) =>
          /\ last'.resp = api_error("AUTH_INVALID_CREDENTIALS", "wrong username or password", 401)
          /\ tokens' = tokens
      ]_vars

\* A login with an unknown username was rejected while records of other
\* users are stored.
C16_Witness ==
    /\ last.req.op = "login"
    /\ last.req.limited = "none"
    /\ last.req.username = "mallory"
    /\ last.resp.code = "AUTH_INVALID_CREDENTIALS"
    /\ Len(tokens) > 0

\* C17: with request-reset-code and confirm-reset executed one at a time,
\* every user has at most one reset code with used_at null and expires_at in
\* the future, whatever the channels and destinations the codes were issued
\* for.
C17_OneActiveCode ==
    \A u \in {1, 2} :
        Cardinality({i \in 1..Len(codes) :
                        /\ codes[i].user_id = u
                        /\ codes[i].used_at = NULL
                        /\ codes[i].expires_at > utcnow}) <= 1

\* A user was sent a code by email and then one by phone: the first is
\* marked used before its expiry and the second is active.
C17_Witness ==
    /\ Len(codes) = 2
    /\ codes[1].user_id = 1 /\ codes[2].user_id = 1
    /\ codes[1].channel = "email" /\ codes[2].channel = "phone"
    /\ codes[1].used_at # NULL /\ codes[1].expires_at > utcnow
    /\ codes[2].used_at = NULL /\ codes[2].expires_at > utcnow

\* A submission to /reset-password that reached the lookup of the code was
\* answered in this step.
ResetAnswered ==
    /\ last' # last
    /\ last'.req.op = "reset_password"
    /\ last'.req.limited = "none"
    /\ last'.resp.flash \in {CodeNotFound, AttemptsExceeded, CodeMismatch, PasswordUpdated}

\* The codes a submitted form is looked up against: the active codes of its
\* channel and contact.
Addressed(form) ==
    {i \in 1..Len(codes) :
        /\ codes[i].channel = form.channel
        /\ codes[i].destination = _normalize_contact(form.channel, form.contact)
        /\ codes[i].used_at = NULL
        /\ codes[i].expires_at > utcnow}

Wrong(form, i) == codes[i].code_hash # generate_password_hash(form.code)

\* C18 (as claimed): with max_attempts = 5, each of the first four wrong
\* submissions for a fresh code is answered CodeMismatch, and the submission
\* that follows four wrong ones is answered AttemptsExceeded, also when it
\* carries the correct code.
C18_FifthExceeded ==
    [][ResetAnswered =>
          \A i \in Addressed(last'.req.form) :
              /\ (audit[i] < 4 /\ Wrong(last'.req.form, i)) =>
                    last'.resp.flash = CodeMismatch
              /\ audit[i] = 4 => last'.resp.flash = AttemptsExceeded
      ]_vars

\* C18 (amended): with max_attempts = 5, each of the first five wrong
\* submissions for a fresh code is answered CodeMismatch and counted; the
\* submission that follows five wrong ones is answered AttemptsExceeded,
\* also when it carries the correct code, and changes neither the code nor
\* the password; a submission with the correct code and an acceptable new
\* password that follows four wrong ones changes the password.
C18_SixthExceeded ==
    [][ResetAnswered =>
          \A i \in Addressed(last'.req.form) :
              /\ max_attempts = 5
              /\ (audit[i] < 5 /\ Wrong(last'.req.form, i)) =>
                    /\ last'.resp.flash = CodeMismatch
                    /\ codes'[i].attempts = codes[i].attempts + 1
              /\ audit[i] = 5 =>
                    /\ last'.resp.flash = AttemptsExceeded
                    /\ codes' = codes
                    /\ password_hash' = password_hash
              /\ (audit[i] = 4 /\ ~Wrong(last'.req.form, i)) =>
                    /\ last'.resp.flash = PasswordUpdated
                    /\ password_hash'[codes[i].user_id] # password_hash[codes[i].user_id]
      ]_vars

\* A submission with the correct code was answered AttemptsExceeded after
\* five wrong submissions for that code.
C18_Witness ==
    /\ last.req.op = "reset_password"
    /\ last.req.limited = "none"
    /\ last.resp.flash = AttemptsExceeded
    /\ \E i \in 1..Len(codes) :
          /\ codes[i].attempts = 5
          /\ audit[i] = 5
          /\ codes[i].used_at = NULL
          /\ codes[i].channel = last.req.form.channel
          /\ codes[i].code_hash = generate_password_hash(last.req.form.code)

\* C19: the attempts of every reset code starts at 0, never decreases and
\* never exceeds max(3, PASSWORD_RESET_MAX_ATTEMPTS).
C19_AttemptsMonotone ==
    /\ [](\A i \in 1..Len(codes) :
            /\ codes[i].attempts >= 0
            /\ codes[i].attempts <= (IF config.PASSWORD_RESET_MAX_ATTEMPTS >= 3
                                     THEN config.PASSWORD_RESET_MAX_ATTEMPTS ELSE 3))
    /\ [][/\ \A i \in 1..Len(codes) : codes'[i].attempts >= codes[i].attempts
          /\ \A i \in (Len(codes) + 1)..Len(codes') : codes'[i].attempts = 0
         ]_vars

\* C20: however the submissions for one code interleave, at most
\* max_attempts wrong submissions are compared with the stored hash, and
\* once no submission is in flight every wrong submission is counted in
\* attempts.
C20_NoStaleCheck ==
    \A i \in 1..Len(codes) :
        /\ audit[i] <= max_attempts
        /\ (\A p \in Procs : pc[p] = "idle") => codes[i].attempts = audit[i]

\* A submission to /reset-password that passed the validation of its fields
\* and the limiters was answered in this step.
ResetReplied ==
    /\ last' # last
    /\ last'.req.op = "reset_password"
    /\ last'.req.limited = "none"

\* Record i is the newest active record of the form's contact, the form
\* carries its code, and its attempts are below the maximum.
Matched(form, i) ==
    /\ i \in Addressed(form)
    /\ NewestActive(codes, codes[i].user_id, codes[i].channel, codes[i].destination,
                    utcnow) = {i}
    /\ ~Wrong(form, i)
    /\ codes[i].attempts < max_attempts

\* The new password of the form passes the checks made after the code is
\* compared: strength, and difference from the current password.
Acceptable(form, user_id) ==
    /\ form.new_password = form.confirm_password
    /\ _validate_password_strength(form.new_password,
                                   UserTable[UserById(user_id)].username) = ""
    /\ ~check_password_hash(password_hash[user_id], form.new_password)

NoActiveCode(store, user_id, t) ==
    \A j \in 1..Len(store) :
        store[j].user_id = user_id => store[j].used_at # NULL \/ store[j].expires_at <= t

\* The submission answered last, repeated with the same channel, contact and
\* code, is answered CodeNotFound.
ReplayNotFound ==
    (/\ last.req.op = "reset_password"
     /\ last.req.limited = "none"
     /\ last.resp.flash = PasswordUpdated
     /\ ResetReplied
     /\ last'.req.form.channel = last.req.form.channel
     /\ last'.req.form.contact = last.req.form.contact
     /\ last'.req.form.code = last.req.form.code
     /\ last'.req.form.new_password = last'.req.form.confirm_password)
    => last'.resp.flash = CodeNotFound

\* C21 (as claimed): whenever a submission to /reset-password carries the
\* code of the newest active record of its contact and attempts is below the
\* maximum, that record and every other active code of the user are marked
\* used, the user has no active code afterwards, and a replay of the code is
\* answered CodeNotFound.
C21_MatchMarksUsed ==
    [][/\ ResetReplied =>
            \A i \in 1..Len(codes) :
                Matched(last'.req.form, i) =>
                    /\ codes'[i].used_at # NULL
                    /\ NoActiveCode(codes', codes[i].user_id, utcnow')
       /\ ReplayNotFound
      ]_vars

\* C21 (amended): whenever a submission to /reset-password carries the code
\* of the newest active record of its contact, attempts is below the maximum
\* and the new password is accepted (equal to its confirmation, strong, and
\* different from the current one), the password is changed, that record and
\* every other active code of the user are marked used, the user has no
\* active code afterwards, and a replay of the code is answered
\* CodeNotFound.  A matching code with a rejected password leaves the record
\* active and its attempts unchanged.
C21_AcceptedMarksUsed ==
    [][/\ ResetReplied =>
            \A i \in 1..Len(codes) :
                Matched(last'.req.form, i) =>
                    IF Acceptable(last'.req.form, codes[i].user_id)
                    THEN /\ last'.resp.flash = PasswordUpdated
                         /\ codes'[i].used_at # NULL
                         /\ NoActiveCode(codes', codes[i].user_id, utcnow')
                         /\ check_password_hash(password_hash'[codes[i].user_id],
                                                last'.req.form.new_password)
                    ELSE /\ codes' = codes
                         /\ password_hash' = password_hash
       /\ ReplayNotFound
      ]_vars

\* A confirmed code took a second active code of the same user with it.
C21_Witness ==
    /\ last.req.op = "reset_password"
    /\ last.req.limited = "none"
    /\ last.resp.flash = PasswordUpdated
    /\ Len(codes) = 2
    /\ codes[1].user_id = codes[2].user_id
    /\ codes[1].used_at # NULL /\ codes[2].used_at # NULL
    /\ codes[1].expires_at > utcnow /\ codes[2].expires_at > utcnow
    /\ codes[1].channel # codes[2].channel

\* The form carries the contact and the value of code i, and a later code j
\* of the same user has another value.
FirstCodeSubmitted(form, i, j) ==
    /\ i < j
    /\ codes[i].user_id = codes[j].user_id
    /\ codes[i].channel = form.channel
    /\ codes[i].destination = _normalize_contact(form.channel, form.contact)
    /\ ~Wrong(form, i)
    /\ Wrong(form, j)

\* C22 (as claimed): after a second code is issued for a user, a submission
\* with the value of the first code is answered CodeNotFound and never
\* CodeMismatch, whatever the channels and destinations of the two codes.
C22_FirstCodeNotFound ==
    [][ResetAnswered =>
          \A i, j \in 1..Len(codes) :
              FirstCodeSubmitted(last'.req.form, i, j) =>
                  last'.resp.flash = CodeNotFound
      ]_vars

\* C22 (amended): after a second code is issued for a user, a submission
\* with the value of the first code never resets the password with the first
\* code.  It is answered CodeNotFound when no code is active for the
\* submitted contact (the second code was issued for another channel or
\* destination, or is no longer active).  When the second code is active for
\* the submitted contact the value is compared with the second code: the
\* answer is CodeMismatch and the attempt is counted against the second
\* code, or AttemptsExceeded once its attempts are used up.
C22_FirstCodeRefused ==
    [][ResetAnswered =>
          \A i, j \in 1..Len(codes) :
              FirstCodeSubmitted(last'.req.form, i, j) =>
                  /\ codes'[i] = codes[i]
                  /\ (Addressed(last'.req.form) = {}) <=> (last'.resp.flash = CodeNotFound)
                  /\ j \in Addressed(last'.req.form) =>
                        /\ password_hash' = password_hash
                        /\ IF attempts_exceeded(codes[j].attempts)
                           THEN last'.resp.flash = AttemptsExceeded /\ codes' = codes
                           ELSE /\ last'.resp.flash = CodeMismatch
                                /\ codes'[j].attempts = codes[j].attempts + 1
      ]_vars

\* Two codes were issued for one contact and the value of the first was
\* submitted: the answer is CodeMismatch, counted against the second code.
C22_Witness ==
    /\ last.req.op = "reset_password"
    /\ last.req.limited = "none"
    /\ last.resp.flash = CodeMismatch
    /\ Len(codes) = 2
    /\ codes[1].user_id = codes[2].user_id
    /\ codes[1].channel = codes[2].channel
    /\ codes[1].destination = codes[2].destination
    /\ codes[1].code_hash = generate_password_hash(last.req.form.code)
    /\ codes[2].code_hash # codes[1].code_hash
    /\ codes[1].used_at # NULL /\ codes[1].attempts = 0
    /\ codes[2].used_at = NULL /\ codes[2].attempts = 1

\* The request answered last is a request for a code with a well-formed
\* channel and contact that no limiter stopped.
ForgotServed ==
    /\ last.req.op = "forgot_password"
    /\ last.req.limited = "none"
    /\ last.req.form.channel \in {"email", "phone"}
    /\ _normalize_contact(last.req.form.channel, last.req.form.contact) # ""

\* The response that depends on the submitted channel and contact only.
ForgotResponse ==
    generic_response(<<"reset_password", last.req.form.channel,
                       _normalize_contact(last.req.form.channel, last.req.form.contact)>>)

ForgotRegistered ==
    _find_user_contact(last.req.form.channel,
        _normalize_contact(last.req.form.channel, last.req.form.contact)) # 0

\* C23: a request for a code with a well-formed channel and
\* contact that is not rate limited gets the same message and redirect
\* whether or not an account is registered for the contact and whether or
\* not the code was delivered.
C23_SameResponse == ForgotServed => last.resp = ForgotResponse

\* What holds instead: the response differs from the generic one exactly in
\* a debug application, for a registered contact whose delivery failed; the
\* code is then flashed in front of the message.
ForgotSameUnlessDebug ==
    ForgotServed =>
        LET shown == /\ config.DEBUG
                     /\ ForgotRegistered
                     /\ outbox # <<>>
                     /\ ~outbox[Len(outbox)]
        IN  /\ ~shown => last.resp = ForgotResponse
            /\ shown =>
                  /\ last.resp # ForgotResponse
                  /\ last.resp.redirect = ForgotResponse.redirect
                  /\ last.resp.flash[2] = ForgotResponse.flash
                  /\ last.resp.flash[1][1] = "dev code"

\* C24: for every datetime created_at, with or without microseconds or UTC
\* offset, and every integer id, decode_cursor(encode_cursor(created_at, id))
\* returns a pair equal to (created_at, id).
C24_RoundTrip ==
    (cursor.stage = "decoded" /\ cursor.origin = "key") =>
        /\ cursor.result.raised = ""
        /\ cursor.result.value # None
        /\ datetime_eq(cursor.result.value[1], cursor.key[1])
        /\ cursor.result.value[2] = cursor.key[2]

\* A key with microseconds, an offset of an odd second and a negative id
\* went through encode_cursor and decode_cursor.
C24_Witness ==
    /\ cursor.stage = "decoded"
    /\ cursor.origin = "key"
    /\ cursor.key[1].microsecond = 1
    /\ cursor.key[1].utcoffset = 3601
    /\ cursor.key[2] < 0
    /\ cursor.result = Return(cursor.key)

\* C25: decode_cursor never raises: for every input string it returns a
\* pair or None.
C25_NeverRaises ==
    cursor.stage = "decoded" => cursor.result.raised = ""

\* The items of the pages of the session, in the order received.
RECURSIVE Flat(_)
Flat(pages) == IF pages = <<>> THEN <<>> ELSE pages[1] \o Flat(Tail(pages))

\* C26: in a paging session over one owner's palettes, under any
\* interleaving with inserts of palettes whose (created_at, id) is above
\* every existing key, the pages received so far are in strictly descending
\* (created_at, id) order with no palette twice, and once next_cursor is null
\* every palette that existed when the session started was returned exactly
\* once.
C26_SessionComplete ==
    paging.stage # "none" =>
        LET seen == Flat(paging.pages)
        IN  /\ \A a, b \in 1..Len(seen) : a < b => key_lt(palettes, seen[b], seen[a])
            /\ \A a, b \in 1..Len(seen) : a # b => seen[a] # seen[b]
            /\ paging.stage = "done" =>
                   \A i \in paging.started :
                       Cardinality({k \in 1..Len(seen) : seen[k] = i}) = 1

\* A session of two pages of one palette each has ended; the two palettes
\* share their created_at, and a palette that the owner created after the
\* first page is in none of the pages.
C26_Witness ==
    /\ paging.stage = "done"
    /\ Len(paging.pages) = 2
    /\ Cardinality(paging.started) = 2
    /\ \E i, k \in paging.started :
           i # k /\ palettes[i].created_at = palettes[k].created_at
    /\ \E i \in Rows(palettes) \ paging.started : palettes[i].user_id = paging.user_id

\* The owner's rows that lie below the last item received, all of them
\* before the first page.
Remaining ==
    LET seen == IF paging.stage = "none" THEN <<>> ELSE Flat(paging.pages)
        owned == {i \in Rows(palettes) : palettes[i].user_id = last'.req.user_id}
    IN  IF seen = <<>> THEN owned
        ELSE {i \in owned : key_lt(palettes, i, seen[Len(seen)])}

\* The page that a request of the session received.
PageOfSession ==
    LET page == paging'.pages[Len(paging'.pages)]
        limit == last'.resp.data.limit
        n == Cardinality(paging'.started)
    IN  /\ Len(page) = (IF Cardinality(Remaining) <= limit
                         THEN Cardinality(Remaining) ELSE limit)
        /\ \A k \in 1..Len(page) : page[k] \in Remaining
        /\ \A a, b \in 1..Len(page) : a < b => key_lt(palettes, page[b], page[a])
        /\ \A i \in Remaining :
               (\A k \in 1..Len(page) : page[k] # i) =>
                   \A k \in 1..Len(page) : key_lt(palettes, i, page[k])
        /\ (paging'.next_cursor # None) <=> (Cardinality(Remaining) > Len(page))
        /\ (paging'.stage = "done" /\ n > 0) =>
               Len(paging'.pages) = (n + limit - 1) \div limit

StrangerAnswered ==
    /\ last' # last
    /\ last'.req.op \in {"update_palette", "delete_palette"}
    /\ last'.req.palette_id \in Rows(palettes)
    /\ palettes[last'.req.palette_id].user_id # last'.req.user_id

\* The step is the commit of a request of the owner of row i for row i.
CommitOfOwner(i) ==
    \E p \in Procs :
        /\ pc[p] # "idle"
        /\ pc'[p] = "idle"
        /\ sess[p].req.user_id = palettes[i].user_id
        /\ sess[p].req.palette_id = i

\* C28: a delete or update of a palette requested by an authenticated user
\* who is not its owner returns FORBIDDEN and leaves the palette unchanged;
\* only a request of the owner changes or removes a palette.
C28_OwnerOnly ==
    [][/\ StrangerAnswered =>
            /\ last'.resp.code = "FORBIDDEN"
            /\ last'.resp.status = 403
            /\ palettes' = palettes
       /\ \A i \in Rows(palettes) : palettes'[i] # palettes[i] => CommitOfOwner(i)]_vars

\* A user who does not own the palette asked to delete it and got
\* FORBIDDEN; the palette is there, with the colours its owner gave it in
\* an update.
C28_Witness ==
    /\ last.req.op = "delete_palette"
    /\ last.resp.code = "FORBIDDEN"
    /\ last.req.palette_id \in Rows(palettes)
    /\ palettes[last.req.palette_id].user_id # last.req.user_id
    /\ palettes[last.req.palette_id].colors[1] = <<"#", "1", "1", "2", "2", "3", "3">>

\* No user owns two palettes with the same name.
UniqueNames ==
    \A i, k \in Rows(palettes) :
        (i # k /\ palettes[i].user_id = palettes[k].user_id)
            => palettes[i].name # palettes[k].name

\* The name that the body of a create asks for, stripped; empty for none.
RequestedName(req) ==
    IF req.payload.name.t = "str" THEN strip(req.payload.name.v) ELSE <<>>

\* The step answers a create whose name the same user has on a palette.
UsedNameAnswered ==
    /\ last' # last
    /\ last'.req.op = "create_palette"
    /\ name_exists(palettes, last'.req.user_id, RequestedName(last'.req))

Refused409 ==
    /\ last'.resp.code = "PALETTE_NAME_CONFLICT"
    /\ last'.resp.status = 409
    /\ palettes' = palettes

\* C29 as stated: no user owns two palettes with the same name, under any
\* interleaving of create and rename requests, and a create whose name is
\* already used by the same user returns PALETTE_NAME_CONFLICT (409) and
\* adds no palette.
C29_UsedNameRefused ==
    /\ []UniqueNames
    /\ [][UsedNameAnswered => Refused409]_vars

\* C29, amended: no user owns two palettes with the same name, under any
\* interleaving of create and rename requests; a create whose name is not
\* one of the default names and is already used by the same user returns
\* PALETTE_NAME_CONFLICT (409) and adds no palette, and a create that asks
\* for a default name the user already has is given the first free default
\* name, or 409 when a concurrent request took it.
C29_OwnNameRefused ==
    /\ []UniqueNames
    /\ [][UsedNameAnswered =>
            IF RequestedName(last'.req) \notin default_names THEN Refused409
            ELSE \/ Refused409
                 \/ /\ last'.resp.status = 201
                    /\ last'.resp.data.name # RequestedName(last'.req)
                    /\ last'.resp.data.name[1] = default_base_name[1]
                    /\ Len(palettes') = Len(palettes) + 1]_vars

\* A user who has a palette named Brand asked to create another " Brand "
\* and got 409.
C29_Witness ==
    /\ last.req.op = "create_palette"
    /\ last.req.payload.name = PyStr(<<" ">> \o Brand \o <<" ">>)
    /\ last.resp.code = "PALETTE_NAME_CONFLICT"
    /\ name_exists(palettes, last.req.user_id, Brand)
    /\ Len(palettes) = 1

\* C30: a refresh request that is refused because its secret is unknown,
\* revoked, rotated or expired leaves every refresh-token record unchanged;
\* the replay of a rotated secret revokes neither the record that the
\* rotation issued nor any other record of the user.
C30_RefusalChangesNothing == [][RefreshRejected' => tokens' = tokens]_vars

\* A rotated secret was replayed and refused, and the record that the
\* rotation issued for the same user is still active.
C30_Witness ==
    /\ RefreshRejected
    /\ last.req.after_rotation
    /\ \E i, k \in 1..Len(tokens) :
           /\ tokens[i].token_hash = _hash_token(last.req.refresh_token)
           /\ tokens[i].revoked_at # NULL
           /\ i < k
           /\ tokens[k].user_id = tokens[i].user_id
           /\ tokens[k].created_at = tokens[i].revoked_at
           /\ tokens[k].revoked_at = NULL
           /\ tokens[k].expires_at > now

\* A login request that one of its two limiters blocked, a refresh request
\* that its limiter blocked.
BlockedLogin == last.req.op = "login" /\ last.req.limited # "none"
BlockedRefresh == last.req.op = "refresh" /\ last.req.limited

Released(i) ==
    \/ codes[i].expires_at <= utcnow
    \/ \E k \in (i + 1)..Len(codes) : codes[k].user_id = codes[i].user_id

\* The attempts of code i have reached max_attempts at some time, and the
\* code is unused, unexpired and the newest of its user.
Exhausted(i) == peak[i] >= max_attempts /\ codes[i].used_at = NULL /\ ~Released(i)

\* A submission with valid fields for the contact of code i is answered in
\* this step by the handler that received it in this step.
AnsweredAtOnce(i) ==
    /\ last' # last
    /\ pc' = pc
    /\ last'.req.op = "reset_password"
    /\ last'.req.limited = "none"
    /\ i \in Addressed(last'.req.form)
    /\ WellFormedCode(last'.req.form.code)
    /\ last'.req.form.new_password = last'.req.form.confirm_password

\* C32: once the attempts of a reset code have reached max_attempts, every
\* submission received afterwards for its contact, with a wrong or with the
\* correct code, is answered AttemptsExceeded without passing the attempts
\* check, and changes neither the codes nor the password, until the code
\* expires or a new code is issued for the user.
C32_ExhaustedRefused ==
    [][\A i \in 1..Len(codes) :
          Exhausted(i) =>
              /\ \A p \in Procs :
                    (pc[p] = "idle" /\ pc'[p] = "reset_password_commit") =>
                        sess'[p].token # i
              /\ AnsweredAtOnce(i) =>
                    /\ last'.resp.flash = AttemptsExceeded
                    /\ codes' = codes
                    /\ password_hash' = password_hash
      ]_vars

\* C33: however two requests for a reset code of one user interleave (each
\* marks the user's active codes used, inserts its code and commits), the
\* user has at most one active code once no such request is in flight.
C33_OneActiveAfterBoth ==
    (\A p \in Procs : pc[p] # "forgot_password_commit") =>
        \A u \in {1, 2} : Cardinality(ActiveCodes(codes, u, utcnow)) <= 1

\* The JSON document inside a cursor string that decodes to one.
PayloadOf(text) ==
    json_loads(decode_utf8(urlsafe_b64decode(_pad_base64(text)).value).value).value

\* payload is an object whose id is a JSON integer and whose created_at is a
\* string that fromisoformat parses.
IntegerIdAndTimestamp(payload) ==
    /\ payload.t = "dict"
    /\ getitem(payload, Chars("id")).raised = ""
    /\ getitem(payload, Chars("id")).value.t = "int"
    /\ getitem(payload, Chars("created_at")).raised = ""
    /\ getitem(payload, Chars("created_at")).value.t = "str"
    /\ fromisoformat(getitem(payload, Chars("created_at")).value).raised = ""

\* C34: decode_cursor returns a key only for a payload whose id is an
\* integer and whose created_at is a parseable timestamp string; a payload
\* whose id is a numeric string, a fractional number or a boolean, or that
\* lacks one of the two fields, decodes to None.
C34_IntegerIdOnly ==
    (/\ cursor.stage = "decoded"
     /\ cursor.result.raised = ""
     /\ cursor.result.value # None) => IntegerIdAndTimestamp(PayloadOf(cursor.text))

\* The submission that worker p commits in this step carries the code of an
\* unused, unexpired record of user u, issued for the channel and the
\* destination of the form, with attempts below the maximum.
CommitsMatch(p, u) ==
    /\ pc[p] = "reset_password_commit"
    /\ pc'[p] = "idle"
    /\ sess[p].matched
    /\ codes[sess[p].token].user_id = u
    /\ sess[p].token \in Addressed(sess[p].req.form)
    /\ ~Wrong(sess[p].req.form, sess[p].token)
    /\ codes[sess[p].token].attempts < max_attempts
    /\ last'.req = sess[p].req
    /\ last'.resp.flash = PasswordUpdated

\* C35: the password hash of a user changes only in a confirm-reset step
\* whose code matches an unused, unexpired reset record of that user for the
\* submitted channel and destination with attempts below the maximum; a
\* submission answered CodeNotFound, AttemptsExceeded, CodeMismatch, unknown
\* contact or with a rejected new password leaves it unchanged.
C35_ChangedByMatchOnly ==
    [][\A u \in {1, 2} :
          password_hash'[u] # password_hash[u] => \E p \in Procs : CommitsMatch(p, u)
      ]_vars

\* C36: a submission with the correct code of an active record whose new
\* password is rejected (it fails the strength rules or equals the current
\* password) is answered with the password message and changes neither the
\* codes (used_at stays null, attempts as they were) nor the password nor
\* the clock, so the same code matches again in the state that follows.
C36_RejectedPasswordKeepsCode ==
    [][\A i \in 1..Len(codes) :
          (/\ ResetReplied
           /\ Matched(last'.req.form, i)
           /\ last'.req.form.new_password = last'.req.form.confirm_password
           /\ ~Acceptable(last'.req.form, codes[i].user_id)) =>
              /\ last'.resp.flash \notin
                    {CodeNotFound, AttemptsExceeded, CodeMismatch, PasswordUpdated}
              /\ last'.resp.category = "error"
              /\ codes' = codes
              /\ password_hash' = password_hash
              /\ utcnow' = utcnow
      ]_vars

\* The issued code was submitted with the current password as the new one
\* after a wrong submission: it was refused, and the record is unused with
\* the one attempt it had.
C36_Witness ==
    /\ last.req.op = "reset_password"
    /\ last.req.limited = "none"
    /\ last.resp.flash = "the new password must differ from the current one"
    /\ \E i \in 1..Len(codes) :
          /\ Matched(last.req.form, i)
          /\ codes[i].attempts = 1
          /\ codes[i].used_at = NULL

\* The access token that was returned in the pair of refresh secret s.
PairedAccessToken(s) == _issue_access_token(issued[s].user_id, issued[s].issued_at).token

\* The refresh record of secret s has been revoked, by a logout or by a
\* rotation.
RefreshRevoked(s) ==
    /\ FirstByHash(tokens, _hash_token(s)) # 0
    /\ tokens[FirstByHash(tokens, _hash_token(s))].revoked_at # NULL

\* C37: the access token of an issued pair verifies until its own expiry,
\* whatever the state of the paired refresh record: after the refresh token
\* has been revoked by a logout or consumed by a rotation, verification of
\* the unexpired access token still returns its user and a bearer request
\* with it is answered 200.
C37_AccessOutlivesRefresh ==
    \A s \in Secrets :
        (/\ issued[s] # NoIssue
         /\ PairedAccessToken(s).payload.exp > Timestamp(now)) =>
            /\ get_user_from_access_token(PairedAccessToken(s), now).ok
            /\ UserTable[get_user_from_access_token(PairedAccessToken(s), now).user].id
                  = issued[s].user_id
            /\ (/\ last.req.op = "me"
                /\ last.req.auth_header = [scheme |-> "Bearer", token |-> PairedAccessToken(s)])
                    => last.resp.status = 200

\* A bearer request with an unexpired access token was answered 200 after
\* the paired refresh token had been revoked by a committed logout, while
\* another pair's refresh token had been consumed by a committed rotation.
C37_Witness ==
    /\ last.req.op = "me"
    /\ last.resp.status = 200
    /\ \E s \in Secrets :
          /\ issued[s] # NoIssue
          /\ last.req.auth_header = [scheme |-> "Bearer", token |-> PairedAccessToken(s)]
          /\ PairedAccessToken(s).payload.exp > Timestamp(now)
          /\ RefreshRevoked(s)
          /\ s \in loggedOut
    /\ \E r \in Secrets :
          /\ issued[r] # NoIssue
          /\ accepted[r] >= 1
          /\ RefreshRevoked(r)
          /\ \A i \in 1..Len(tokens) :
                tokens[i].user_id = issued[r].user_id => tokens[i].revoked_at # NULL

\* C38: the password-reset flow never writes refresh-token records: a step
\* that changes a user's password leaves the refresh_tokens table as it was,
\* so every refresh token that was active before the step is active after it
\* and its lookup for rotation succeeds.
C38_ResetKeepsSessions ==
    [][password_hash' # password_hash =>
          /\ tokens' = tokens
          /\ \A s \in Secrets :
                get_active_refresh_token(tokens, s, now).ok =>
                    /\ get_active_refresh_token(tokens', s, now').ok
                    /\ get_active_refresh_token(tokens', s, now').token
                          = get_active_refresh_token(tokens, s, now).token
      ]_vars

\* A confirm-reset was answered with success and changed the password of a
\* user who holds an active refresh token, issued under the old password.
C38_Witness ==
    /\ last.req.op = "reset_password"
    /\ last.resp.flash = PasswordUpdated
    /\ password_hash[1] # UserTable[1].password_hash
    /\ \E s \in Secrets :
          /\ issued[s].user_id = 1
          /\ get_active_refresh_token(tokens, s, now).ok
          /\ tokens[get_active_refresh_token(tokens, s, now).token].user_id = 1

\* C39: for every cursor, one encoded from another user's palette or made
\* up by the client included, a page of list_palettes holds only palettes
\* whose user_id is the authenticated user.
C39_OwnPalettesOnly ==
    (last.req.op = "list_palettes" /\ last.resp.status = 200) =>
        \A k \in 1..Len(last.resp.data.items) :
            /\ last.resp.data.items[k].id \in Rows(palettes)
            /\ palettes[last.resp.data.items[k].id].user_id = last.req.user_id

\* A user listed palettes with the cursor of another user's palette and got
\* a page of its own palettes, while a palette of the other user lies below
\* that cursor.
C39_Witness ==
    /\ last.req.op = "list_palettes"
    /\ ~last.req.session
    /\ last.resp.status = 200
    /\ last.resp.data.items # <<>>
    /\ \E j \in Rows(palettes) :
          /\ palettes[j].user_id # last.req.user_id
          /\ last.req.cursor = encode_cursor(palettes[j].created_at, palettes[j].id)
          /\ \E i \in Rows(palettes) :
                /\ palettes[i].user_id # last.req.user_id
                /\ below_cursor(palettes[i], <<palettes[j].created_at, palettes[j].id>>)

====
